---- MODULE Spec2Model ----
(***************************************************************************)
(* Model of the Mystic Realms server authority (src/enhanced_server.py):   *)
(* bot spawning, the bot tick, the lock groups and the load-balancer       *)
(* handshake of EnhancedGameServer.                                        *)
(***************************************************************************)
EXTENDS Integers, Sequences, FiniteSets, TLC

VARIABLES
    serverRegionIndex,          \* self.serverRegionIndex
    serverBoundaryCoordinates,  \* self.serverBoundaryCoordinates, <<w, h>>
    spawnPc,                    \* position of the thread running spawnEnhancedBotsInRegion
    numberOfBots,               \* the argument of spawnEnhancedBotsInRegion
    regionBoundaries,           \* the local of that name, <<x0, y0>>
    positions,                  \* the local set of _generateOptimizedSpawnPositions
    attempts,                   \* the local counter of _generateOptimizedSpawnPositions
    lastAttempt,                \* history: the candidate (x, y) of the last loop iteration
    spawnPositions,             \* the returned list (its order is any order of the set)
    spawnIter,                  \* the entries of spawnPositions enumerate() has yielded so far
    botIndex,                   \* enumerate()'s index
    spawnXY,                    \* the loop's (spawnX, spawnY)
    enhancedBot,                \* the local EnhancedBot of the loop body
    spawnLog,                   \* history: id -> position of each add_player call made by spawn
    activePlayerData,           \* self.activePlayerData
    gameStateUpdates,           \* self.gameStateUpdates
    enhancedBotManager,         \* self.enhancedBotManager
    spatialPlayerGrid,          \* self.spatialPlayerGrid: its cells and each id's latest <<x, y>>
    rlock,                      \* each RLock: its owning thread (or NoThread) and recursion count
    acquired_locks,             \* per thread, the list thread_safe_operation keeps
    aiPc,                       \* position of the EnhancedBotAI thread
    activeBots,                 \* its snapshot list(self.enhancedBotManager.items()), as ids left
    aiBot,                      \* the botId of the current loop iteration
    botSteps,                   \* how many steps the bots' own behaviour has taken
    isConnectedToLoadBalancer,  \* self.isConnectedToLoadBalancer
    hsPc,                       \* position of the LoadBalancerConnection thread
    udpData,                    \* the packet recvfrom returned
    hsException,                \* the exception being raised in the try block, or NoException
    loadBalancerSocket,         \* self.loadBalancerSocket, as the number of the socket object
    socketsCreated,             \* how many stream sockets _createEnhancedSocket has made for it
    lbHandlerStarted,           \* the LoadBalancerProtocol thread has been started
    hsRounds,                   \* history: how many discovery rounds have begun
    hsTrace,                    \* history: what the current round has achieved, in order
    hsFailure,                  \* history: stage, kind and socket of the current round's failure
    mainPc,                     \* position of the main thread in executeServerProtocol
    clientPc,                   \* position of the ClientConnectionHandler thread
    connectedClientSessions,    \* self.connectedClientSessions, as the ids of its sessions
    lbPc,                       \* position of the LoadBalancerProtocol thread
    lbTrace,                    \* history: the steps _handleLoadBalancerProtocol has made, in order
    shutdownRequested,          \* a shutdown of the server has been requested
    bootPc,                     \* position of the main thread in __main__ and __init__
    bootException,              \* the exception raised while constructing, or NoException
    bootSockets,                \* how many sockets __init__ has created
    mapFiles,                   \* the two map files on disk: absent, valid or corrupt
    gameMapPath,                \* the local of that name in _initializeSpatialSystems
    gameMapData,                \* self.gameMapData: unset or loaded
    loggerConfigured,           \* self.logger has been assigned
    tso,                        \* per thread, the frame of its thread_safe_operation call
    kd,                         \* the frame of _buildOptimizedCollisionKdTree
    game,                       \* client: the game's flag and map, and where its threads are
    combat                      \* client: the weapons and the executeEnhancedCombatSystem call

cfgVars   == <<serverRegionIndex, serverBoundaryCoordinates>>
spawnVars == <<spawnPc, numberOfBots, regionBoundaries, positions, attempts,
               lastAttempt, spawnPositions, spawnIter, botIndex, spawnXY, enhancedBot, spawnLog>>
storeVars == <<activePlayerData, gameStateUpdates, enhancedBotManager, spatialPlayerGrid>>
lockVars  == <<rlock, acquired_locks>>
aiVars    == <<aiPc, activeBots, aiBot, botSteps>>
linkVars  == <<isConnectedToLoadBalancer>>
hsVars    == <<hsPc, udpData, hsException, loadBalancerSocket, socketsCreated,
               lbHandlerStarted, hsRounds, hsTrace, hsFailure>>
srvVars   == <<mainPc, clientPc, connectedClientSessions, lbPc, lbTrace, shutdownRequested>>
bootVars  == <<bootPc, bootException, bootSockets, mapFiles, gameMapPath, gameMapData,
               loggerConfigured>>
tsoVars   == <<tso>>
tileVars  == <<kd>>
gameVars  == <<game>>
combatVars == <<combat>>
extVars   == <<tsoVars, tileVars, gameVars, combatVars>>
serverVars == <<cfgVars, spawnVars, storeVars, aiVars, linkVars, hsVars, srvVars, bootVars>>
vars      == <<cfgVars, spawnVars, storeVars, lockVars, aiVars, linkVars, hsVars, srvVars, bootVars,
               extVars>>

\* the fields of tso: per thread, its position in a with thread_safe_operation
\* block, the locks argument, and as history how often it held each lock at the
\* call, the locks the finally clause has released, and how the block was left
tsoPc       == tso.tsoPc
tsoLocks    == tso.tsoLocks
tsoBefore   == tso.tsoBefore
tsoReleased == tso.tsoReleased
tsoExit     == tso.tsoExit

\* the fields of kd: the position in the function, its argument (a set of
\* (x, width, y, height)), the order in which the set yields its tiles, and the
\* locals collisionPositions (coordinates doubled) and positionToTileMapping
kdPc                  == kd.kdPc
collidableElements    == kd.collidableElements
tileOrder             == kd.tileOrder
collisionPositions    == kd.collisionPositions
positionToTileMapping == kd.positionToTileMapping

\* the fields of game: the position of the main thread in initiate_game_protocol,
\* self.isGameRunning, self.gameWorldMap (unset or loaded), the positions of the
\* OptimizedMapRenderer and ExplosiveEffects threads, and as history how often
\* _performGameCleanup has been entered and what ended the main game loop
gamePc        == game.gamePc
isGameRunning == game.isGameRunning
gameWorldMap  == game.gameWorldMap
renderPc      == game.renderPc
explosivePc   == game.explosivePc
cleanupRuns   == game.cleanupRuns
loopExit      == game.loopExit

\* the fields of combat: the position in executeEnhancedCombatSystem, the
\* currentAmmunition of each weapon, playerState.selectedWeaponIndex, and as
\* history the projectile threads started and the ammunition and thread count
\* at the beginning of the call
combatPc            == combat.combatPc
weaponAmmunition    == combat.weaponAmmunition
selectedWeaponIndex == combat.selectedWeaponIndex
projectileThreads   == combat.projectileThreads
combatBefore        == combat.combatBefore

----------------------------------------------------------------------------
(* Bounds of the model *)

\* largest numberOfBots a spawn request is explored with
MaxBots == 2

\* region indices explored: 1..4 are the recognised ones, 0 (the initial value) is not
RegionIndices == 0..4

\* values explored for each of the two assigned boundary coordinates
BoundaryValues == {0, 100, 2000}

\* values random.randint(0, w) is explored with (those that are <= w)
OffsetSamples == {0, 50, 100, 2000}

\* discovery rounds explored
MaxRounds == 3

\* steps of the bots' own behaviour explored while the threads run
MaxBotSteps == 2

\* distance a moving bot advances in one step of its behaviour
BotStride == 50

\* client sessions explored at a time
MaxPlayers == 1

\* ids the session manager is explored to give a player: one in the range of the
\* bots' ids, one beyond it
PlayerIds == {0, 25}

\* the x a player's movement message is explored to carry
PlayerX == 10

\* coordinates the Player Grid is explored with: around the edges of its buckets
GridXs == {0, 999, 1000, 2500}
GridYs == {0, 999, 1000}

----------------------------------------------------------------------------
(* Program constants *)

MinSeparation == 100
AttemptFactor == 10
InitialHealth == 100
spatialGridCellSize == 1000

NoThread == "none"

Abs(n) == IF n < 0 THEN -n ELSE n

Put(m, k, v) == [i \in DOMAIN m \cup {k} |-> IF i = k THEN v ELSE m[i]]

----------------------------------------------------------------------------
(* _generateOptimizedSpawnPositions *)

RandInt(hi) == {o \in OffsetSamples : o <= hi}

\* mutant: the table rows of regions 2 and 4 exchanged
RegionOriginRowsExchanged(idx, b) ==
    CASE idx = 1 -> <<0, 0>>
      [] idx = 2 -> <<0, b[2]>>
      [] idx = 3 -> <<b[1], b[2]>>
      [] idx = 4 -> <<b[1], 0>>
      [] OTHER   -> <<0, 0>>

RegionOrigin(idx, b) ==
    CASE idx = 1 -> <<0, 0>>
      [] idx = 2 -> <<b[1], 0>>
      [] idx = 3 -> <<b[1], b[2]>>
      [] idx = 4 -> <<0, b[2]>>
      [] OTHER   -> <<0, 0>>

\* mutant: a candidate is close when it is close in either axis
TooCloseEitherAxis(p, q) == Abs(p[1] - q[1]) < MinSeparation \/ Abs(p[2] - q[2]) < MinSeparation

TooClose(p, q) == Abs(p[1] - q[1]) < MinSeparation /\ Abs(p[2] - q[2]) < MinSeparation

Rejected(c, ps) == \E q \in ps : TooClose(c, q)

MaxAttempts(count) == count * AttemptFactor

\* mutant: the while loop without its attempt cap
LoopConditionUncapped == Cardinality(positions) < numberOfBots

LoopCondition == Cardinality(positions) < numberOfBots /\ attempts < MaxAttempts(numberOfBots)

----------------------------------------------------------------------------
(* Threads and the lock groups of _initializeThreadSafeLocks *)

LbThread == "LoadBalancerProtocol"
AiThread == "EnhancedBotAI"
Threads  == {LbThread, AiThread}

playerDataLock      == "playerDataLock"
gameStateUpdateLock == "gameStateUpdateLock"
botManagerLock      == "botManagerLock"
spatialIndexLock    == "spatialIndexLock"
Locks == {playerDataLock, gameStateUpdateLock, botManagerLock, spatialIndexLock}

\* the lock lists the three operations hand to thread_safe_operation
SpawnStoreLocks  == <<playerDataLock, gameStateUpdateLock, botManagerLock>>
GridLocks        == <<spatialIndexLock>>
SnapshotLocks    == <<botManagerLock>>
\* mutant: the movement tick taking its two locks in the other order
MovementLocksReversed == <<gameStateUpdateLock, playerDataLock>>

\* mutant: the movement tick writing the store under the delta lock alone
MovementLocksWithoutPlayerData == <<gameStateUpdateLock>>

MovementLocks    == <<playerDataLock, gameStateUpdateLock>>
CombatLocks      == <<gameStateUpdateLock>>

\* RLock.acquire() by thread t does not block
CanAcquire(t, l) == rlock[l].owner \in {NoThread, t}

\* thread_safe_operation: the next lock.acquire() of the for loop
AcquireNext(t, ls) ==
    LET n == Len(acquired_locks[t]) IN
    /\ n < Len(ls)
    /\ CanAcquire(t, ls[n + 1])
    /\ rlock' = [rlock EXCEPT ![ls[n + 1]] = [owner |-> t, count |-> @.count + 1]]
    /\ acquired_locks' = [acquired_locks EXCEPT ![t] = Append(@, ls[n + 1])]

\* thread_safe_operation: the finally clause, every acquired lock released once
ReleaseAll(t) ==
    LET mine == {acquired_locks[t][i] : i \in 1..Len(acquired_locks[t])} IN
    /\ rlock' = [l \in Locks |->
                    IF l \in mine
                    THEN [owner |-> IF rlock[l].count = 1 THEN NoThread ELSE rlock[l].owner,
                          count |-> rlock[l].count - 1]
                    ELSE rlock[l]]
    /\ acquired_locks' = [acquired_locks EXCEPT ![t] = <<>>]

\* the thread holds exactly the locks of the list, the body of the with block runs
Holds(t, ls) == acquired_locks[t] = ls

----------------------------------------------------------------------------
(* spawnEnhancedBotsInRegion and _generateOptimizedSpawnPositions *)

\* EnhancedBot(spawnX, spawnY, isAggressive, targetX=0, targetY=0, ...)
EnhancedBot(p, aggressive) ==
    [currentX |-> p[1], currentY |-> p[2], isAggressive |-> aggressive,
     targetX |-> 0, targetY |-> 0,
     isCurrentlyMoving |-> FALSE, isCurrentlyEngaged |-> FALSE]

\* lines 294-304: the region's origin, then the call of the generator
SpawnCall ==
    /\ spawnPc = "call"
    /\ regionBoundaries' = RegionOrigin(serverRegionIndex, serverBoundaryCoordinates)
    /\ positions' = {}
    /\ attempts' = 0
    /\ spawnPc' = "generate"
    /\ UNCHANGED <<numberOfBots, lastAttempt, spawnPositions, spawnIter, botIndex, spawnXY, enhancedBot, spawnLog>>
    /\ UNCHANGED <<bootVars, extVars, srvVars, cfgVars, storeVars, lockVars, aiVars, linkVars, hsVars>>

\* lines 337-345: one iteration of the while loop
GenerateAttempt ==
    /\ spawnPc = "generate"
    /\ LoopCondition
    /\ \E dx \in RandInt(serverBoundaryCoordinates[1]), dy \in RandInt(serverBoundaryCoordinates[2]) :
          LET c == <<regionBoundaries[1] + dx, regionBoundaries[2] + dy>> IN
          /\ positions' = IF ~Rejected(c, positions) THEN positions \cup {c} ELSE positions
          /\ lastAttempt' = c
    /\ attempts' = attempts + 1
    /\ UNCHANGED <<spawnPc, numberOfBots, regionBoundaries, spawnPositions, spawnIter, botIndex, spawnXY, enhancedBot, spawnLog>>
    /\ UNCHANGED <<bootVars, extVars, srvVars, cfgVars, storeVars, lockVars, aiVars, linkVars, hsVars>>

\* line 347: the loop is left and list(positions) returned; the generator's
\* locals end with its frame
GenerateReturn ==
    /\ spawnPc = "generate"
    /\ ~LoopCondition
    /\ spawnPositions' = positions
    /\ spawnIter' = {}
    /\ botIndex' = 0
    /\ spawnPc' = "enumerate"
    /\ positions' = {}
    /\ attempts' = 0
    /\ lastAttempt' = <<>>
    /\ UNCHANGED <<numberOfBots, regionBoundaries, spawnXY, enhancedBot, spawnLog>>
    /\ UNCHANGED <<bootVars, extVars, srvVars, cfgVars, storeVars, lockVars, aiVars, linkVars, hsVars>>

\* lines 307-314: the next (botIndex, position) of enumerate, in the list's order,
\* which for list(set) is any order; the bot object is built
SpawnNextBot ==
    /\ spawnPc = "enumerate"
    /\ spawnIter # spawnPositions
    /\ \E p \in spawnPositions \ spawnIter, aggressive \in BOOLEAN :
          /\ spawnXY' = p
          /\ enhancedBot' = EnhancedBot(p, aggressive)
          /\ spawnIter' = spawnIter \cup {p}
    /\ spawnPc' = "store"
    /\ UNCHANGED <<numberOfBots, regionBoundaries, positions, attempts, lastAttempt,
                   spawnPositions, botIndex, spawnLog>>
    /\ UNCHANGED <<bootVars, extVars, srvVars, cfgVars, storeVars, lockVars, aiVars, linkVars, hsVars>>

\* line 317: entering thread_safe_operation(playerDataLock, gameStateUpdateLock, botManagerLock)
SpawnAcquireStore ==
    /\ spawnPc = "store"
    /\ AcquireNext(LbThread, SpawnStoreLocks)
    /\ UNCHANGED <<bootVars, extVars, srvVars, cfgVars, spawnVars, storeVars, aiVars, linkVars, hsVars>>

\* mutant: the record written with its coordinates exchanged
SpawnWriteStoreExchanged ==
    /\ spawnPc = "store"
    /\ Holds(LbThread, SpawnStoreLocks)
    /\ activePlayerData' = Put(activePlayerData, botIndex,
            [x |-> spawnXY[2], y |-> spawnXY[1],
             type |-> enhancedBot.isAggressive, angle |-> 0, health |-> InitialHealth])
    /\ spawnPc' = "store_delta"
    /\ UNCHANGED <<numberOfBots, regionBoundaries, positions, attempts, lastAttempt,
                   spawnPositions, spawnIter, botIndex, spawnXY, enhancedBot, spawnLog>>
    /\ UNCHANGED <<bootVars, extVars, srvVars, cfgVars, gameStateUpdates, enhancedBotManager, spatialPlayerGrid,
                   lockVars, aiVars, linkVars, hsVars>>

\* mutant: the registry entry is written where the store record belongs
SpawnWriteStoreRegistryFirst ==
    /\ spawnPc = "store"
    /\ Holds(LbThread, SpawnStoreLocks)
    /\ enhancedBotManager' = Put(enhancedBotManager, botIndex, enhancedBot)
    /\ spawnPc' = "store_delta"
    /\ UNCHANGED <<numberOfBots, regionBoundaries, positions, attempts, lastAttempt,
                   spawnPositions, spawnIter, botIndex, spawnXY, enhancedBot, spawnLog>>
    /\ UNCHANGED <<bootVars, extVars, srvVars, cfgVars, activePlayerData, gameStateUpdates, spatialPlayerGrid,
                   lockVars, aiVars, linkVars, hsVars>>

\* lines 318-321: the bot's record is written to the store; the with block goes on
SpawnWriteStore ==
    /\ spawnPc = "store"
    /\ Holds(LbThread, SpawnStoreLocks)
    /\ activePlayerData' = Put(activePlayerData, botIndex,
            [x |-> spawnXY[1], y |-> spawnXY[2],
             type |-> enhancedBot.isAggressive, angle |-> 0, health |-> InitialHealth])
    /\ spawnPc' = "store_delta"
    /\ UNCHANGED <<numberOfBots, regionBoundaries, positions, attempts, lastAttempt,
                   spawnPositions, spawnIter, botIndex, spawnXY, enhancedBot, spawnLog>>
    /\ UNCHANGED <<bootVars, extVars, srvVars, cfgVars, gameStateUpdates, enhancedBotManager, spatialPlayerGrid,
                   lockVars, aiVars, linkVars, hsVars>>

\* line 322: the bot's delta entry is set to an empty delta
SpawnWriteDelta ==
    /\ spawnPc = "store_delta"
    /\ Holds(LbThread, SpawnStoreLocks)
    /\ gameStateUpdates' = Put(gameStateUpdates, botIndex, <<>>)
    /\ spawnPc' = "store_register"
    /\ UNCHANGED <<numberOfBots, regionBoundaries, positions, attempts, lastAttempt,
                   spawnPositions, spawnIter, botIndex, spawnXY, enhancedBot, spawnLog>>
    /\ UNCHANGED <<bootVars, extVars, srvVars, cfgVars, activePlayerData, enhancedBotManager, spatialPlayerGrid,
                   lockVars, aiVars, linkVars, hsVars>>

\* line 323: the bot enters the registry, then the three locks are released
SpawnRegisterBot ==
    /\ spawnPc = "store_register"
    /\ Holds(LbThread, SpawnStoreLocks)
    /\ enhancedBotManager' = Put(enhancedBotManager, botIndex, enhancedBot)
    /\ ReleaseAll(LbThread)
    /\ spawnPc' = "grid"
    /\ UNCHANGED <<numberOfBots, regionBoundaries, positions, attempts, lastAttempt,
                   spawnPositions, spawnIter, botIndex, spawnXY, enhancedBot, spawnLog>>
    /\ UNCHANGED <<bootVars, extVars, srvVars, cfgVars, activePlayerData, gameStateUpdates, spatialPlayerGrid,
                   aiVars, linkVars, hsVars>>

\* line 326: entering thread_safe_operation(spatialIndexLock)
SpawnAcquireGrid ==
    /\ spawnPc = "grid"
    /\ AcquireNext(LbThread, GridLocks)
    /\ UNCHANGED <<bootVars, extVars, srvVars, cfgVars, spawnVars, storeVars, aiVars, linkVars, hsVars>>

\* EnhancedPlayerGrid: the bucket of a position, (floor(x/cellSize), floor(y/cellSize))
CellOf(x, y) == <<x \div spatialGridCellSize, y \div spatialGridCellSize>>

EmptyGrid == [cells |-> <<>>, latest |-> <<>>]

\* the buckets without the id; a bucket left empty is dropped
WithoutId(cells, id) ==
    LET kept == {c \in DOMAIN cells : cells[c] \ {id} # {}}
    IN  [c \in kept |-> cells[c] \ {id}]

\* the buckets with the id inserted into bucket c
WithId(cells, c, id) ==
    [k \in DOMAIN cells \cup {c} |->
        IF k = c THEN (IF c \in DOMAIN cells THEN cells[c] ELSE {}) \cup {id} ELSE cells[k]]

\* mutant: the insert without the removal from the old bucket
add_player_keeping_old_cell(grid, id, x, y) ==
    [cells  |-> WithId(grid.cells, CellOf(x, y), id),
     latest |-> Put(grid.latest, id, <<x, y>>)]

\* EnhancedPlayerGrid.add_player(id, x, y): the id leaves the bucket it is in and
\* enters the bucket of (x, y), and (x, y) becomes its latest position
add_player(grid, id, x, y) ==
    [cells  |-> WithId(WithoutId(grid.cells, id), CellOf(x, y), id),
     latest |-> Put(grid.latest, id, <<x, y>>)]

\* mutant: the loop body without its grid insert
SpawnWriteGridSkipped ==
    /\ spawnPc = "grid"
    /\ Holds(LbThread, GridLocks)
    /\ ReleaseAll(LbThread)
    /\ botIndex' = botIndex + 1
    /\ spawnPc' = "enumerate"
    /\ UNCHANGED <<numberOfBots, regionBoundaries, positions, attempts, lastAttempt,
                   spawnPositions, spawnIter, spawnXY, enhancedBot, spawnLog>>
    /\ UNCHANGED <<bootVars, extVars, srvVars, cfgVars, storeVars, aiVars, linkVars, hsVars>>

\* line 327: the grid insert with the spawn coordinates, then the next loop iteration
SpawnWriteGrid ==
    /\ spawnPc = "grid"
    /\ Holds(LbThread, GridLocks)
    /\ spatialPlayerGrid' = add_player(spatialPlayerGrid, botIndex, spawnXY[1], spawnXY[2])
    /\ spawnLog' = Put(spawnLog, botIndex, spawnXY)
    /\ ReleaseAll(LbThread)
    /\ botIndex' = botIndex + 1
    /\ spawnPc' = "enumerate"
    /\ UNCHANGED <<numberOfBots, regionBoundaries, positions, attempts, lastAttempt,
                   spawnPositions, spawnIter, spawnXY, enhancedBot>>
    /\ UNCHANGED <<bootVars, extVars, srvVars, cfgVars, activePlayerData, gameStateUpdates, enhancedBotManager, aiVars, linkVars, hsVars>>

\* line 329: the for loop is exhausted, the method returns
SpawnReturn ==
    /\ spawnPc = "enumerate"
    /\ spawnIter = spawnPositions
    /\ spawnPc' = "done"
    /\ UNCHANGED <<numberOfBots, regionBoundaries, positions, attempts, lastAttempt,
                   spawnPositions, spawnIter, botIndex, spawnXY, enhancedBot, spawnLog>>
    /\ UNCHANGED <<bootVars, extVars, srvVars, cfgVars, storeVars, lockVars, aiVars, linkVars, hsVars>>

SpawnNext ==
    \/ SpawnCall
    \/ GenerateAttempt
    \/ GenerateReturn
    \/ SpawnNextBot
    \/ SpawnAcquireStore
    \/ SpawnWriteStore
    \/ SpawnWriteDelta
    \/ SpawnRegisterBot
    \/ SpawnAcquireGrid
    \/ SpawnWriteGrid
    \/ SpawnReturn

----------------------------------------------------------------------------
(* executeEnhancedBotAI: the tick loop of the EnhancedBotAI thread *)

\* the ids of a dict in insertion order; bots are inserted in the order 0, 1, 2, ...
RECURSIVE IdsInOrder(_)
IdsInOrder(ids) ==
    IF ids = {} THEN <<>>
    ELSE LET least == CHOOSE i \in ids : \A j \in ids : i <= j
         IN  <<least>> \o IdsInOrder(ids \ {least})

DeltaPut(delta, key, value) ==
    [k \in DOMAIN delta \cup {key} |-> IF k = key THEN value ELSE delta[k]]

\* line 353: the while test
AiLoopTest ==
    /\ aiPc = "loop"
    /\ aiPc' = IF isConnectedToLoadBalancer THEN "move_snapshot" ELSE "stopped"
    /\ UNCHANGED <<activeBots, aiBot, botSteps>>
    /\ UNCHANGED <<bootVars, extVars, srvVars, cfgVars, spawnVars, storeVars, lockVars, linkVars, hsVars>>

\* the lock list of the with block the thread is entering
AiLocks ==
    CASE aiPc \in {"move_snapshot", "combat_snapshot"} -> SnapshotLocks
      [] aiPc \in {"move_store", "move_store_y"} -> MovementLocks
      [] aiPc = "move_grid"    -> GridLocks
      [] aiPc = "combat_store" -> CombatLocks
      [] OTHER -> <<>>

\* lines 370, 376, 383, 388, 393: entering thread_safe_operation
AiAcquire ==
    /\ AcquireNext(AiThread, AiLocks)
    /\ UNCHANGED <<bootVars, extVars, srvVars, cfgVars, spawnVars, storeVars, aiVars, linkVars, hsVars>>

\* lines 370-371 and 388-389: the registry is copied under botManagerLock
AiSnapshot ==
    /\ aiPc \in {"move_snapshot", "combat_snapshot"}
    /\ Holds(AiThread, SnapshotLocks)
    /\ activeBots' = IdsInOrder(DOMAIN enhancedBotManager)
    /\ ReleaseAll(AiThread)
    /\ aiPc' = IF aiPc = "move_snapshot" THEN "move_for" ELSE "combat_for"
    /\ UNCHANGED <<aiBot, botSteps>>
    /\ UNCHANGED <<bootVars, extVars, srvVars, cfgVars, spawnVars, storeVars, linkVars, hsVars>>

\* mutant: the movement loop without the test of the flag
AiMoveForEveryBot ==
    /\ aiPc = "move_for"
    /\ IF activeBots = <<>>
       THEN /\ aiPc' = "combat_snapshot"
            /\ UNCHANGED <<activeBots, aiBot>>
       ELSE /\ aiBot' = Head(activeBots)
            /\ activeBots' = Tail(activeBots)
            /\ aiPc' = "move_store"
    /\ UNCHANGED botSteps
    /\ UNCHANGED <<bootVars, extVars, srvVars, cfgVars, spawnVars, storeVars, lockVars, linkVars, hsVars>>

\* mutant: a bot that is not moving ends the movement loop
AiMoveForLeavingEarly ==
    /\ aiPc = "move_for"
    /\ IF activeBots = <<>>
       THEN /\ aiPc' = "combat_snapshot"
            /\ UNCHANGED <<activeBots, aiBot>>
       ELSE /\ aiBot' = Head(activeBots)
            /\ activeBots' = Tail(activeBots)
            /\ aiPc' = IF enhancedBotManager[Head(activeBots)].isCurrentlyMoving
                       THEN "move_store" ELSE "combat_snapshot"
    /\ UNCHANGED botSteps
    /\ UNCHANGED <<bootVars, extVars, srvVars, cfgVars, spawnVars, storeVars, lockVars, linkVars, hsVars>>

\* lines 373-374: the next bot of the movement loop and the test of its flag
AiMoveFor ==
    /\ aiPc = "move_for"
    /\ IF activeBots = <<>>
       THEN /\ aiPc' = "combat_snapshot"
            /\ UNCHANGED <<activeBots, aiBot>>
       ELSE /\ aiBot' = Head(activeBots)
            /\ activeBots' = Tail(activeBots)
            /\ aiPc' = IF enhancedBotManager[Head(activeBots)].isCurrentlyMoving
                       THEN "move_store" ELSE "move_for"
    /\ UNCHANGED botSteps
    /\ UNCHANGED <<bootVars, extVars, srvVars, cfgVars, spawnVars, storeVars, lockVars, linkVars, hsVars>>

\* line 377: the bot's x copied to the store; the with block goes on
AiWriteMovementX ==
    /\ aiPc = "move_store"
    /\ Holds(AiThread, MovementLocks)
    /\ activePlayerData' = [activePlayerData EXCEPT
            ![aiBot] = [@ EXCEPT !.x = enhancedBotManager[aiBot].currentX]]
    /\ aiPc' = "move_store_y"
    /\ UNCHANGED <<activeBots, aiBot, botSteps>>
    /\ UNCHANGED <<bootVars, extVars, srvVars, cfgVars, spawnVars, gameStateUpdates, enhancedBotManager,
                   spatialPlayerGrid, lockVars, linkVars, hsVars>>

\* lines 378-380: the bot's y copied to the store, x and y to its delta, then the
\* locks are released
AiWriteMovement ==
    /\ aiPc = "move_store_y"
    /\ Holds(AiThread, MovementLocks)
    /\ activePlayerData' = [activePlayerData EXCEPT
            ![aiBot] = [@ EXCEPT !.y = enhancedBotManager[aiBot].currentY]]
    /\ gameStateUpdates' = [gameStateUpdates EXCEPT
            ![aiBot] = DeltaPut(DeltaPut(@, "x", enhancedBotManager[aiBot].currentX),
                                "y", enhancedBotManager[aiBot].currentY)]
    /\ ReleaseAll(AiThread)
    /\ aiPc' = "move_grid"
    /\ UNCHANGED <<activeBots, aiBot, botSteps>>
    /\ UNCHANGED <<bootVars, extVars, srvVars, cfgVars, spawnVars, enhancedBotManager, spatialPlayerGrid, linkVars, hsVars>>

\* line 384: the bot's position handed to the grid
AiWriteGrid ==
    /\ aiPc = "move_grid"
    /\ Holds(AiThread, GridLocks)
    /\ spatialPlayerGrid' = add_player(spatialPlayerGrid, aiBot,
                                       enhancedBotManager[aiBot].currentX,
                                       enhancedBotManager[aiBot].currentY)
    /\ ReleaseAll(AiThread)
    /\ aiPc' = "move_for"
    /\ UNCHANGED <<activeBots, aiBot, botSteps>>
    /\ UNCHANGED <<bootVars, extVars, srvVars, cfgVars, spawnVars, activePlayerData, gameStateUpdates,
                   enhancedBotManager, linkVars, hsVars>>

\* line 384 raising: add_player fails, the with block releases spatialIndexLock on
\* the way out (lines 286-288) and the exception reaches the except clause of the loop
AiGridRaises ==
    /\ aiPc = "move_grid"
    /\ Holds(AiThread, GridLocks)
    /\ ReleaseAll(AiThread)
    /\ aiPc' = "except"
    /\ UNCHANGED <<activeBots, aiBot, botSteps>>
    /\ UNCHANGED <<bootVars, extVars, srvVars, cfgVars, spawnVars, storeVars, linkVars, hsVars>>

\* mutant: the except clause ends the thread
AiExceptEndingLoop ==
    /\ aiPc = "except"
    /\ aiPc' = "stopped"
    /\ UNCHANGED <<activeBots, aiBot, botSteps>>
    /\ UNCHANGED <<bootVars, extVars, srvVars, cfgVars, spawnVars, storeVars, lockVars, linkVars, hsVars>>

\* lines 364-366: the error is logged, the thread sleeps a second and the while
\* loop goes on with its test
AiExcept ==
    /\ aiPc = "except"
    /\ aiPc' = "loop"
    /\ UNCHANGED <<activeBots, aiBot, botSteps>>
    /\ UNCHANGED <<bootVars, extVars, srvVars, cfgVars, spawnVars, storeVars, lockVars, linkVars, hsVars>>

\* mutant: the combat loop tests the movement flag
AiCombatForTestingMoving ==
    /\ aiPc = "combat_for"
    /\ IF activeBots = <<>>
       THEN /\ aiPc' = "sleep"
            /\ UNCHANGED <<activeBots, aiBot>>
       ELSE /\ aiBot' = Head(activeBots)
            /\ activeBots' = Tail(activeBots)
            /\ aiPc' = IF enhancedBotManager[Head(activeBots)].isCurrentlyMoving
                       THEN "combat_store" ELSE "combat_for"
    /\ UNCHANGED botSteps
    /\ UNCHANGED <<bootVars, extVars, srvVars, cfgVars, spawnVars, storeVars, lockVars, linkVars, hsVars>>

\* lines 391-392: the next bot of the combat loop and the test of its flag
AiCombatFor ==
    /\ aiPc = "combat_for"
    /\ IF activeBots = <<>>
       THEN /\ aiPc' = "sleep"
            /\ UNCHANGED <<activeBots, aiBot>>
       ELSE /\ aiBot' = Head(activeBots)
            /\ activeBots' = Tail(activeBots)
            /\ aiPc' = IF enhancedBotManager[Head(activeBots)].isCurrentlyEngaged
                       THEN "combat_store" ELSE "combat_for"
    /\ UNCHANGED botSteps
    /\ UNCHANGED <<bootVars, extVars, srvVars, cfgVars, spawnVars, storeVars, lockVars, linkVars, hsVars>>

\* lines 394-397: the combat delta
AiWriteCombat ==
    /\ aiPc = "combat_store"
    /\ Holds(AiThread, CombatLocks)
    /\ gameStateUpdates' = [gameStateUpdates EXCEPT
            ![aiBot] = DeltaPut(@, "weapon_fire",
                                <<enhancedBotManager[aiBot].currentX,
                                  enhancedBotManager[aiBot].currentY,
                                  enhancedBotManager[aiBot].targetX,
                                  enhancedBotManager[aiBot].targetY>>)]
    /\ ReleaseAll(AiThread)
    /\ aiPc' = "combat_for"
    /\ UNCHANGED <<activeBots, aiBot, botSteps>>
    /\ UNCHANGED <<bootVars, extVars, srvVars, cfgVars, spawnVars, activePlayerData, enhancedBotManager,
                   spatialPlayerGrid, linkVars, hsVars>>

\* line 362: time.sleep(1.0 / tickRate), then the next iteration
AiSleep ==
    /\ aiPc = "sleep"
    /\ aiPc' = "loop"
    /\ UNCHANGED <<activeBots, aiBot, botSteps>>
    /\ UNCHANGED <<bootVars, extVars, srvVars, cfgVars, spawnVars, storeVars, lockVars, linkVars, hsVars>>

AiNext ==
    \/ AiLoopTest
    \/ AiAcquire
    \/ AiSnapshot
    \/ AiMoveFor
    \/ AiWriteMovementX
    \/ AiWriteMovement
    \/ AiWriteGrid
    \/ AiGridRaises
    \/ AiExcept
    \/ AiCombatFor
    \/ AiWriteCombat
    \/ AiSleep

----------------------------------------------------------------------------
(* The bots' own behaviour: IDLE, MOVING and ENGAGED *)

\* the states a bot object can step to: a moving bot advances, arrives with its
\* last advance (MOVING -> IDLE on arrival), gives up its path or engages
BotNextStates(b) ==
    IF b.isCurrentlyEngaged
    THEN {[b EXCEPT !.isCurrentlyEngaged = FALSE, !.isCurrentlyMoving = TRUE]}
    ELSE IF b.isCurrentlyMoving
    THEN {[b EXCEPT !.currentX = @ + BotStride],
          [b EXCEPT !.currentX = @ + BotStride, !.isCurrentlyMoving = FALSE],
          [b EXCEPT !.isCurrentlyMoving = FALSE],
          [b EXCEPT !.isCurrentlyMoving = FALSE, !.isCurrentlyEngaged = TRUE]}
    ELSE {[b EXCEPT !.isCurrentlyMoving = TRUE],
          [b EXCEPT !.isCurrentlyEngaged = TRUE]}

BotBehaviour ==
    /\ botSteps < MaxBotSteps
    /\ \E id \in DOMAIN enhancedBotManager :
          \E b \in BotNextStates(enhancedBotManager[id]) :
              enhancedBotManager' = [enhancedBotManager EXCEPT ![id] = b]
    /\ botSteps' = botSteps + 1
    /\ UNCHANGED <<aiPc, activeBots, aiBot>>
    /\ UNCHANGED <<bootVars, extVars, srvVars, cfgVars, spawnVars, activePlayerData, gameStateUpdates,
                   spatialPlayerGrid, lockVars, linkVars, hsVars>>

----------------------------------------------------------------------------
(* _establishLoadBalancerConnection: the discovery loop of the                    *)
(* LoadBalancerConnection thread                                                  *)

\* NetworkProtocols
HANDSHAKE_REQUEST     == "SYNC_HANDSHAKE_v2"
HANDSHAKE_ACKNOWLEDGE == "SYNC_ACK_v2"
CONNECTION_CONFIRMED  == "CONNECTION_ESTABLISHED"

\* packets the broadcast socket is explored with: the handshake, a handshake of
\* another version, another text, and bytes that are no text
UndecodablePacket == "<bytes that are not UTF-8>"
Packets == {HANDSHAKE_REQUEST, "SYNC_HANDSHAKE_v1", "HELLO", UndecodablePacket}

\* strings the load balancer is explored to answer the acknowledgment with
Replies == {CONNECTION_CONFIRMED, "CONNECTION_REFUSED"}

NoException == "none"
SocketTimeout == "socket.timeout"
Exceptions == {SocketTimeout, "OSError", "UnicodeDecodeError"}

NoFailure == [stage |-> "none", kind |-> "none", socket |-> 0]

\* an exception is raised at a stage of the try block
Raise(stage, exc) ==
    /\ hsException' = exc
    /\ hsFailure' = [stage |-> stage, kind |-> exc, socket |-> loadBalancerSocket]
    /\ hsPc' = "raised"

\* a helper returned False at a stage: the if is not taken, the loop goes on
ReturnedFalse(stage) ==
    /\ hsException' = NoException
    /\ hsFailure' = [stage |-> stage, kind |-> "False", socket |-> loadBalancerSocket]
    /\ hsPc' = "loop"

\* line 439: the while test; a round begins
HsLoopTest ==
    /\ hsPc = "loop"
    /\ IF isConnectedToLoadBalancer
       THEN /\ hsPc' = "done"
            /\ UNCHANGED <<hsRounds, hsTrace, hsFailure>>
       ELSE /\ hsRounds < MaxRounds
            /\ hsRounds' = hsRounds + 1
            /\ hsTrace' = <<>>
            /\ hsFailure' = NoFailure
            /\ hsPc' = "recvfrom"
    /\ UNCHANGED <<udpData, hsException, loadBalancerSocket, socketsCreated, lbHandlerStarted>>
    /\ UNCHANGED <<bootVars, extVars, srvVars, cfgVars, spawnVars, storeVars, lockVars, aiVars, linkVars>>

\* line 441: udpBroadcastSocket.recvfrom(1024) returns a packet, times out after
\* the 4 seconds of settimeout, or fails
HsRecvFrom ==
    /\ hsPc = "recvfrom"
    /\ \/ \E pkt \in Packets :
             /\ udpData' = pkt
             /\ hsPc' = "decode"
             /\ UNCHANGED <<hsException, hsFailure>>
       \/ \E exc \in {SocketTimeout, "OSError"} :
             /\ Raise("recvfrom", exc)
             /\ UNCHANGED udpData
    /\ UNCHANGED <<loadBalancerSocket, socketsCreated, lbHandlerStarted, hsRounds, hsTrace>>
    /\ UNCHANGED <<bootVars, extVars, srvVars, cfgVars, spawnVars, storeVars, lockVars, aiVars, linkVars>>

\* line 442: udpData.decode() for the log line
HsDecode ==
    /\ hsPc = "decode"
    /\ IF udpData = UndecodablePacket
       THEN Raise("decode", "UnicodeDecodeError")
       ELSE /\ hsPc' = "handshake"
            /\ UNCHANGED <<hsException, hsFailure>>
    /\ UNCHANGED <<udpData, loadBalancerSocket, socketsCreated, lbHandlerStarted, hsRounds, hsTrace>>
    /\ UNCHANGED <<bootVars, extVars, srvVars, cfgVars, spawnVars, storeVars, lockVars, aiVars, linkVars>>

\* _processLoadBalancerHandshake(udpData): True for the versioned handshake string
ProcessLoadBalancerHandshake(pkt) == pkt = HANDSHAKE_REQUEST

\* line 444: the if on _processLoadBalancerHandshake
HsHandshake ==
    /\ hsPc = "handshake"
    /\ \/ /\ ProcessLoadBalancerHandshake(udpData)
          /\ hsTrace' = Append(hsTrace, "handshake accepted")
          /\ hsPc' = "acknowledge"
          /\ UNCHANGED <<hsException, hsFailure>>
       \/ /\ ~ProcessLoadBalancerHandshake(udpData)
          /\ ReturnedFalse("handshake")
          /\ UNCHANGED hsTrace
       \/ /\ Raise("handshake", "OSError")
          /\ UNCHANGED hsTrace
    /\ UNCHANGED <<udpData, loadBalancerSocket, socketsCreated, lbHandlerStarted, hsRounds>>
    /\ UNCHANGED <<bootVars, extVars, srvVars, cfgVars, spawnVars, storeVars, lockVars, aiVars, linkVars>>

\* line 445: _sendLoadBalancerAcknowledgment() returns or raises
HsAcknowledge ==
    /\ hsPc = "acknowledge"
    /\ \/ /\ hsTrace' = Append(hsTrace, "acknowledgment sent")
          /\ hsPc' = "confirm"
          /\ UNCHANGED <<hsException, hsFailure>>
       \/ \E exc \in {SocketTimeout, "OSError"} :
             /\ Raise("acknowledge", exc)
             /\ UNCHANGED hsTrace
    /\ UNCHANGED <<udpData, loadBalancerSocket, socketsCreated, lbHandlerStarted, hsRounds>>
    /\ UNCHANGED <<bootVars, extVars, srvVars, cfgVars, spawnVars, storeVars, lockVars, aiVars, linkVars>>

\* _receiveConnectionConfirmation(): True for the confirmation string
ReceiveConnectionConfirmation(reply) == reply = CONNECTION_CONFIRMED

\* mutant: the flag set whatever _receiveConnectionConfirmation returned
HsConfirmUnconditional ==
    /\ hsPc = "confirm"
    /\ \/ \E reply \in Replies :
             /\ isConnectedToLoadBalancer' = TRUE
             /\ lbHandlerStarted' = TRUE
             /\ hsTrace' = IF ReceiveConnectionConfirmation(reply)
                           THEN Append(hsTrace, "confirmation received") ELSE hsTrace
             /\ hsPc' = "done"
             /\ UNCHANGED <<hsException, hsFailure>>
       \/ \E exc \in {SocketTimeout, "OSError"} :
             /\ Raise("confirm", exc)
             /\ UNCHANGED <<isConnectedToLoadBalancer, lbHandlerStarted, hsTrace>>
    /\ UNCHANGED <<udpData, loadBalancerSocket, socketsCreated, hsRounds>>
    /\ UNCHANGED <<bootVars, extVars, srvVars, cfgVars, spawnVars, storeVars, lockVars, aiVars>>

\* lines 446-455: the if on _receiveConnectionConfirmation; on True the flag is
\* set, the LoadBalancerProtocol thread started and the loop left
HsConfirm ==
    /\ hsPc = "confirm"
    /\ \/ \E reply \in Replies :
             IF ReceiveConnectionConfirmation(reply)
             THEN /\ isConnectedToLoadBalancer' = TRUE
                  /\ lbHandlerStarted' = TRUE
                  /\ hsTrace' = Append(hsTrace, "confirmation received")
                  /\ hsPc' = "done"
                  /\ UNCHANGED <<hsException, hsFailure>>
             ELSE /\ ReturnedFalse("confirm")
                  /\ UNCHANGED <<isConnectedToLoadBalancer, lbHandlerStarted, hsTrace>>
       \/ \E exc \in {SocketTimeout, "OSError"} :
             /\ Raise("confirm", exc)
             /\ UNCHANGED <<isConnectedToLoadBalancer, lbHandlerStarted, hsTrace>>
    /\ UNCHANGED <<udpData, loadBalancerSocket, socketsCreated, hsRounds>>
    /\ UNCHANGED <<bootVars, extVars, srvVars, cfgVars, spawnVars, storeVars, lockVars, aiVars>>

\* mutant: the try statement with its except socket.timeout clause only
ExceptClauseTimeoutOnly(exc) ==
    IF exc = SocketTimeout THEN "except socket.timeout" ELSE "uncaught"

\* lines 457 and 459: the except clause that takes the exception
ExceptClause(exc) ==
    IF exc = SocketTimeout THEN "except socket.timeout"
    ELSE IF exc \in Exceptions THEN "except Exception"
    ELSE "uncaught"

\* lines 457-461: the handler runs; only except Exception makes a new stream
\* socket; then the next loop iteration
HsExcept ==
    /\ hsPc = "raised"
    /\ hsException' = NoException
    /\ CASE ExceptClause(hsException) = "except socket.timeout" ->
               /\ hsPc' = "loop"
               /\ UNCHANGED <<loadBalancerSocket, socketsCreated>>
         [] ExceptClause(hsException) = "except Exception" ->
               /\ socketsCreated' = socketsCreated + 1
               /\ loadBalancerSocket' = socketsCreated + 1
               /\ hsPc' = "loop"
         [] OTHER ->
               /\ hsPc' = "escaped"
               /\ UNCHANGED <<loadBalancerSocket, socketsCreated>>
    /\ UNCHANGED <<udpData, lbHandlerStarted, hsRounds, hsTrace, hsFailure>>
    /\ UNCHANGED <<bootVars, extVars, srvVars, cfgVars, spawnVars, storeVars, lockVars, aiVars, linkVars>>

HsNext ==
    \/ HsLoopTest
    \/ HsRecvFrom
    \/ HsDecode
    \/ HsHandshake
    \/ HsAcknowledge
    \/ HsConfirm
    \/ HsExcept

----------------------------------------------------------------------------
(* executeServerProtocol: the main thread *)

\* lines 403-407: the LoadBalancerConnection thread is created and started
MainStartDiscovery ==
    /\ mainPc = "start"
    /\ hsPc = "off"
    /\ hsPc' = "loop"
    /\ mainPc' = "join"
    /\ UNCHANGED <<udpData, hsException, loadBalancerSocket, socketsCreated,
                   lbHandlerStarted, hsRounds, hsTrace, hsFailure>>
    /\ UNCHANGED <<clientPc, connectedClientSessions, lbPc, lbTrace, shutdownRequested>>
    /\ UNCHANGED <<cfgVars, spawnVars, storeVars, lockVars, bootVars, extVars, aiVars, linkVars>>

\* line 408: join() returns when _establishLoadBalancerConnection has returned
MainJoin ==
    /\ mainPc = "join"
    /\ hsPc \in {"done", "escaped"}
    /\ mainPc' = "test"
    /\ UNCHANGED <<clientPc, connectedClientSessions, lbPc, lbTrace, shutdownRequested>>
    /\ UNCHANGED <<cfgVars, spawnVars, storeVars, lockVars, bootVars, extVars, aiVars, linkVars, hsVars>>

\* lines 410 and 426-427: the if on the flag, and its else branch
MainTest ==
    /\ mainPc = "test"
    /\ mainPc' = IF isConnectedToLoadBalancer THEN "start_client" ELSE "failed"
    /\ UNCHANGED <<clientPc, connectedClientSessions, lbPc, lbTrace, shutdownRequested>>
    /\ UNCHANGED <<cfgVars, spawnVars, storeVars, lockVars, bootVars, extVars, aiVars, linkVars, hsVars>>

\* lines 412-416: the ClientConnectionHandler thread is created and started
MainStartClient ==
    /\ mainPc = "start_client"
    /\ clientPc' = "serving"
    /\ mainPc' = "start_ai"
    /\ UNCHANGED <<connectedClientSessions, lbPc, lbTrace, shutdownRequested>>
    /\ UNCHANGED <<cfgVars, spawnVars, storeVars, lockVars, bootVars, extVars, aiVars, linkVars, hsVars>>

\* mutant: fully operational is logged without the EnhancedBotAI thread
MainStartAiSkipped ==
    /\ mainPc = "start_ai"
    /\ mainPc' = "operational"
    /\ UNCHANGED <<clientPc, connectedClientSessions, lbPc, lbTrace, shutdownRequested>>
    /\ UNCHANGED <<cfgVars, spawnVars, storeVars, lockVars, bootVars, extVars, aiVars, linkVars, hsVars>>

\* lines 419-425: the EnhancedBotAI thread is created and started, and the
\* server logs that it is fully operational
MainStartAi ==
    /\ mainPc = "start_ai"
    /\ aiPc' = "loop"
    /\ mainPc' = "operational"
    /\ UNCHANGED <<activeBots, aiBot, botSteps>>
    /\ UNCHANGED <<clientPc, connectedClientSessions, lbPc, lbTrace, shutdownRequested>>
    /\ UNCHANGED <<cfgVars, spawnVars, storeVars, lockVars, bootVars, extVars, linkVars, hsVars>>

MainNext ==
    \/ MainStartDiscovery
    \/ MainJoin
    \/ MainTest
    \/ MainStartClient
    \/ MainStartAi

----------------------------------------------------------------------------
(* _handleLoadBalancerProtocol: the LoadBalancerProtocol thread *)

\* lines 229-243: self.clientProtocolHandlers, tag -> handler
clientProtocolHandlers ==
    [tag \in {"PLAYER_MOVEMENT", "WEAPON_FIRE", "HEALTH_UPDATE", "POWER_ACTIVATION",
              "VIEW_ANGLE", "USER_LOGIN", "USER_REGISTRATION", "CURRENCY_UPDATE",
              "AMMUNITION_UPDATE", "INVENTORY_ACTION", "EXPLOSIVE_ACTIVATION",
              "CHAT_MESSAGE", "BOT_DAMAGE"} |->
        CASE tag = "PLAYER_MOVEMENT"      -> "handle_player_movement"
          [] tag = "WEAPON_FIRE"          -> "handle_weapon_fire"
          [] tag = "HEALTH_UPDATE"        -> "handle_health_update"
          [] tag = "POWER_ACTIVATION"     -> "handle_power_activation"
          [] tag = "VIEW_ANGLE"           -> "handle_view_angle"
          [] tag = "USER_LOGIN"           -> "handle_user_login"
          [] tag = "USER_REGISTRATION"    -> "handle_user_registration"
          [] tag = "CURRENCY_UPDATE"      -> "handle_currency_update"
          [] tag = "AMMUNITION_UPDATE"    -> "handle_ammunition_update"
          [] tag = "INVENTORY_ACTION"     -> "handle_inventory_action"
          [] tag = "EXPLOSIVE_ACTIVATION" -> "handle_explosive_activation"
          [] tag = "CHAT_MESSAGE"         -> "handle_chat_message"
          [] tag = "BOT_DAMAGE"           -> "handle_bot_damage"]

\* lines 246-249: self.responseProtocolHandlers
responseProtocolHandlers ==
    [tag \in {"DATA_REQUEST", "FULL_DATA_REQUEST"} |->
        IF tag = "DATA_REQUEST" THEN "handle_data_request" ELSE "handle_full_data_request"]

\* mutant: the load-balancer table registered without the credential cache handler
loadBalancerHandlersWithoutCache ==
    [tag \in {"GET_SERVER_INDEX", "GET_REGION_BOUNDARIES", "SEND_SERVER_INFO",
              "REGISTER_USER", "AUTHENTICATE_USER"} |->
        CASE tag = "GET_SERVER_INDEX"      -> "get_server_index"
          [] tag = "GET_REGION_BOUNDARIES" -> "get_region_boundaries"
          [] tag = "SEND_SERVER_INFO"      -> "send_server_info"
          [] tag = "REGISTER_USER"         -> "register_user"
          [] tag = "AUTHENTICATE_USER"     -> "authenticate_user"]

\* lines 252-259: self.loadBalancerHandlers
loadBalancerHandlers ==
    [tag \in {"GET_SERVER_INDEX", "GET_REGION_BOUNDARIES", "SEND_SERVER_INFO",
              "REGISTER_USER", "AUTHENTICATE_USER", "CACHE_PLAYER_DATA"} |->
        CASE tag = "GET_SERVER_INDEX"      -> "get_server_index"
          [] tag = "GET_REGION_BOUNDARIES" -> "get_region_boundaries"
          [] tag = "SEND_SERVER_INFO"      -> "send_server_info"
          [] tag = "REGISTER_USER"         -> "register_user"
          [] tag = "AUTHENTICATE_USER"     -> "authenticate_user"
          [] tag = "CACHE_PLAYER_DATA"     -> "cache_player_data"]

\* lines 466-467, 475-477: the positions at which the thread looks a tag up in
\* self.loadBalancerHandlers and calls what it finds; each is named by its tag
LbLookups == {"GET_SERVER_INDEX", "GET_REGION_BOUNDARIES",
              "REGISTER_USER", "AUTHENTICATE_USER", "CACHE_PLAYER_DATA"}

\* region indices and boundaries the load balancer is explored to assign
AssignedRegions == {2}
AssignedBoundaries == {<<0, 0>>}

\* the handlers of the steady-state loop, in the order of lines 475-477
SteadyHandlers == <<"REGISTER_USER", "AUTHENTICATE_USER", "CACHE_PLAYER_DATA">>

\* lines 450-454: the thread started by the discovery loop begins to run
LbBegin ==
    /\ lbHandlerStarted
    /\ lbPc = "off"
    /\ lbPc' = "GET_SERVER_INDEX"
    /\ UNCHANGED <<mainPc, clientPc, connectedClientSessions, lbTrace, shutdownRequested>>
    /\ UNCHANGED <<cfgVars, spawnVars, storeVars, lockVars, bootVars, extVars, aiVars, linkVars, hsVars>>

\* line 466: loadbalancer_protocol_handlers.get_server_index(self) stores the
\* assigned region index, or raises, which ends the thread
LbGetServerIndex ==
    /\ lbPc = "GET_SERVER_INDEX"
    /\ \/ \E idx \in AssignedRegions :
             /\ serverRegionIndex' = idx
             /\ lbTrace' = Append(lbTrace, "GET_SERVER_INDEX")
             /\ lbPc' = "GET_REGION_BOUNDARIES"
       \/ /\ lbPc' = "died"
          /\ UNCHANGED <<serverRegionIndex, lbTrace>>
    /\ UNCHANGED <<mainPc, clientPc, connectedClientSessions, shutdownRequested>>
    /\ UNCHANGED <<serverBoundaryCoordinates, spawnVars, storeVars, lockVars, bootVars, extVars, aiVars, linkVars, hsVars>>

\* mutant: the boundary request made after the bots are spawned, not before
LbGetRegionBoundariesLate ==
    /\ lbPc = "GET_REGION_BOUNDARIES"
    /\ lbPc' = "spawn"
    /\ UNCHANGED <<mainPc, clientPc, connectedClientSessions, lbTrace, shutdownRequested>>
    /\ UNCHANGED <<cfgVars, spawnVars, storeVars, lockVars, bootVars, extVars, aiVars, linkVars, hsVars>>

\* line 467: loadbalancer_protocol_handlers.get_region_boundaries(self) stores
\* the assigned boundary, or raises, which ends the thread
LbGetRegionBoundaries ==
    /\ lbPc = "GET_REGION_BOUNDARIES"
    /\ \/ \E b \in AssignedBoundaries :
             /\ serverBoundaryCoordinates' = b
             /\ lbTrace' = Append(lbTrace, "GET_REGION_BOUNDARIES")
             /\ lbPc' = "spawn"
       \/ /\ lbPc' = "died"
          /\ UNCHANGED <<serverBoundaryCoordinates, lbTrace>>
    /\ UNCHANGED <<mainPc, clientPc, connectedClientSessions, shutdownRequested>>
    /\ UNCHANGED <<serverRegionIndex, spawnVars, storeVars, lockVars, bootVars, extVars, aiVars, linkVars, hsVars>>

\* line 470: spawnEnhancedBotsInRegion(25) is called; the count is explored with
\* MaxBots
LbSpawnCall ==
    /\ lbPc = "spawn"
    /\ numberOfBots' = MaxBots
    /\ spawnPc' = "call"
    /\ lbTrace' = Append(lbTrace, "spawnEnhancedBotsInRegion")
    /\ lbPc' = "spawning"
    /\ UNCHANGED <<regionBoundaries, positions, attempts, lastAttempt, spawnPositions,
                   spawnIter, botIndex, spawnXY, enhancedBot, spawnLog>>
    /\ UNCHANGED <<mainPc, clientPc, connectedClientSessions, shutdownRequested>>
    /\ UNCHANGED <<cfgVars, storeVars, lockVars, bootVars, extVars, aiVars, linkVars, hsVars>>

\* line 470: spawnEnhancedBotsInRegion has returned
LbSpawnReturned ==
    /\ lbPc = "spawning"
    /\ spawnPc = "done"
    /\ lbPc' = "steady"
    /\ UNCHANGED <<mainPc, clientPc, connectedClientSessions, lbTrace, shutdownRequested>>
    /\ UNCHANGED <<cfgVars, spawnVars, storeVars, lockVars, bootVars, extVars, aiVars, linkVars, hsVars>>

\* line 473: the while test of the steady-state loop
LbSteadyTest ==
    /\ lbPc = "steady"
    /\ lbPc' = IF isConnectedToLoadBalancer THEN SteadyHandlers[1] ELSE "ended"
    /\ lbTrace' = IF Len(lbTrace) = 3 THEN Append(lbTrace, "steady state") ELSE lbTrace
    /\ UNCHANGED <<mainPc, clientPc, connectedClientSessions, shutdownRequested>>
    /\ UNCHANGED <<cfgVars, spawnVars, storeVars, lockVars, bootVars, extVars, aiVars, linkVars, hsVars>>

\* lines 475-477: one handler of the loop returns, or raises
LbSteadyHandler ==
    /\ \E i \in 1..Len(SteadyHandlers) :
          /\ lbPc = SteadyHandlers[i]
          /\ \/ lbPc' = IF i < Len(SteadyHandlers) THEN SteadyHandlers[i + 1] ELSE "sleep"
             \/ lbPc' = "raised"
    /\ UNCHANGED <<mainPc, clientPc, connectedClientSessions, lbTrace, shutdownRequested>>
    /\ UNCHANGED <<cfgVars, spawnVars, storeVars, lockVars, bootVars, extVars, aiVars, linkVars, hsVars>>

\* line 479: time.sleep(0.1), then the next iteration
LbSleep ==
    /\ lbPc = "sleep"
    /\ lbPc' = "steady"
    /\ UNCHANGED <<mainPc, clientPc, connectedClientSessions, lbTrace, shutdownRequested>>
    /\ UNCHANGED <<cfgVars, spawnVars, storeVars, lockVars, bootVars, extVars, aiVars, linkVars, hsVars>>

\* mutant: the except clause that logs and goes on with the loop
LbExceptKeepsLink ==
    /\ lbPc = "raised"
    /\ lbPc' = "steady"
    /\ UNCHANGED isConnectedToLoadBalancer
    /\ UNCHANGED <<mainPc, clientPc, connectedClientSessions, lbTrace, shutdownRequested>>
    /\ UNCHANGED <<cfgVars, spawnVars, storeVars, lockVars, bootVars, extVars, aiVars, hsVars>>

\* lines 481-484: the except clause demotes the link and leaves the loop
LbExcept ==
    /\ lbPc = "raised"
    /\ isConnectedToLoadBalancer' = FALSE
    /\ lbPc' = "ended"
    /\ UNCHANGED <<mainPc, clientPc, connectedClientSessions, lbTrace, shutdownRequested>>
    /\ UNCHANGED <<cfgVars, spawnVars, storeVars, lockVars, bootVars, extVars, aiVars, hsVars>>

LbNext ==
    \/ LbBegin
    \/ LbGetServerIndex
    \/ LbGetRegionBoundaries
    \/ LbSpawnCall
    \/ SpawnNext
    \/ LbSpawnReturned
    \/ LbSteadyTest
    \/ LbSteadyHandler
    \/ LbSleep
    \/ LbExcept

----------------------------------------------------------------------------
(* The ClientConnectionHandler thread and the client protocol handlers *)

\* no thread is inside a with block on the store or the deltas
StoreLocksFree ==
    /\ rlock[playerDataLock].owner = NoThread
    /\ rlock[gameStateUpdateLock].owner = NoThread

\* a connection is accepted: the session gets an id no entity has, and its
\* entity record and empty delta are created
ClientAccept ==
    /\ clientPc = "serving"
    /\ Cardinality(connectedClientSessions) < MaxPlayers
    /\ StoreLocksFree
    /\ \E id \in PlayerIds \ DOMAIN activePlayerData :
          /\ connectedClientSessions' = connectedClientSessions \cup {id}
          /\ activePlayerData' = Put(activePlayerData, id,
                [x |-> 0, y |-> 0, type |-> FALSE, angle |-> 0, health |-> InitialHealth])
          /\ gameStateUpdates' = Put(gameStateUpdates, id, <<>>)
    /\ UNCHANGED <<mainPc, clientPc, lbPc, lbTrace, shutdownRequested>>
    /\ UNCHANGED <<cfgVars, spawnVars, enhancedBotManager, spatialPlayerGrid,
                   lockVars, bootVars, extVars, aiVars, linkVars, hsVars>>

\* PLAYER_MOVEMENT of a session: the player's x is written to the store and to
\* its delta
ClientPlayerMovement ==
    /\ clientPc = "serving"
    /\ StoreLocksFree
    /\ \E id \in connectedClientSessions :
          /\ "x" \notin DOMAIN gameStateUpdates[id]
          /\ activePlayerData' = [activePlayerData EXCEPT ![id] = [@ EXCEPT !.x = PlayerX]]
          /\ gameStateUpdates' = [gameStateUpdates EXCEPT ![id] = DeltaPut(@, "x", PlayerX)]
    /\ UNCHANGED <<bootVars, extVars, srvVars, cfgVars, spawnVars, enhancedBotManager, spatialPlayerGrid,
                   lockVars, aiVars, linkVars, hsVars>>

ClientNext ==
    \/ ClientAccept
    \/ ClientPlayerMovement

----------------------------------------------------------------------------
(* A request to shut the server down *)

RequestShutdown ==
    /\ ~shutdownRequested
    /\ shutdownRequested' = TRUE
    /\ UNCHANGED <<mainPc, clientPc, connectedClientSessions, lbPc, lbTrace>>
    /\ UNCHANGED <<cfgVars, spawnVars, storeVars, lockVars, bootVars, extVars, aiVars, linkVars, hsVars>>

----------------------------------------------------------------------------
(* Calls of the Player Grid's add_player, as spawn and the movement tick make them *)

GridAddOrUpdate ==
    /\ \E id \in 0..(MaxBots - 1), x \in GridXs, y \in GridYs :
          spatialPlayerGrid' = add_player(spatialPlayerGrid, id, x, y)
    /\ UNCHANGED <<bootVars, extVars, srvVars, cfgVars, spawnVars, activePlayerData, gameStateUpdates,
                   enhancedBotManager, lockVars, aiVars, linkVars, hsVars>>

----------------------------------------------------------------------------
(* __main__ and EnhancedGameServer.__init__: the construction of the server *)

\* the two places _initializeSpatialSystems looks for the map
PrimaryMapPath  == "assets/maps/game_world.tmx"
FallbackMapPath == "map/map.tmx"
MapPaths == {PrimaryMapPath, FallbackMapPath}

\* what a map file is explored to be
MapFileStates == {"absent", "valid", "corrupt"}

\* the exception pytmx.TiledMap raises for a file in that state
LoadError(fileState) ==
    IF fileState = "absent" THEN "FileNotFoundError" ELSE "ParseError"

\* lines 84-85: the two stream sockets
BootCreateSockets ==
    /\ bootPc = "sockets"
    /\ bootSockets' = 2
    /\ bootPc' = "udp_socket"
    /\ UNCHANGED <<bootException, mapFiles, gameMapPath, gameMapData, loggerConfigured>>
    /\ UNCHANGED <<srvVars, cfgVars, spawnVars, storeVars, lockVars, aiVars, linkVars, hsVars,
                   extVars>>

\* lines 86, 131-141: the broadcast socket is created and bound; bind raises OSError
\* when the address cannot be bound, and __init__ has no handler for it
BootCreateUdpSocket ==
    /\ bootPc = "udp_socket"
    /\ \/ /\ bootSockets' = 3
          /\ bootPc' = "state"
          /\ UNCHANGED bootException
       \/ /\ bootException' = "OSError"
          /\ bootPc' = "raised"
          /\ UNCHANGED bootSockets
    /\ UNCHANGED <<mapFiles, gameMapPath, gameMapData, loggerConfigured>>
    /\ UNCHANGED <<srvVars, cfgVars, spawnVars, storeVars, lockVars, aiVars, linkVars, hsVars,
                   extVars>>

\* lines 89-111: identification, link flag, stores and registry get their first values
BootInitState ==
    /\ bootPc = "state"
    /\ serverRegionIndex' = 0
    /\ serverBoundaryCoordinates' = <<0, 0>>
    /\ isConnectedToLoadBalancer' = FALSE
    /\ connectedClientSessions' = {}
    /\ activePlayerData' = <<>>
    /\ gameStateUpdates' = <<>>
    /\ enhancedBotManager' = <<>>
    /\ bootPc' = "locks"
    /\ UNCHANGED <<bootException, bootSockets, mapFiles, gameMapPath, gameMapData, loggerConfigured>>
    /\ UNCHANGED <<mainPc, clientPc, lbPc, lbTrace, shutdownRequested>>
    /\ UNCHANGED <<spawnVars, spatialPlayerGrid, lockVars, aiVars, hsVars, extVars>>

\* lines 114, 143-158: the four RLocks are created, free
BootInitLocks ==
    /\ bootPc = "locks"
    /\ rlock' = [l \in Locks |-> [owner |-> NoThread, count |-> 0]]
    /\ bootPc' = "map_path"
    /\ UNCHANGED <<bootException, bootSockets, mapFiles, gameMapPath, gameMapData, loggerConfigured>>
    /\ UNCHANGED <<srvVars, cfgVars, spawnVars, storeVars, acquired_locks, aiVars, linkVars, hsVars,
                   extVars>>

\* lines 164-169: the primary map if it exists, else the legacy location
BootMapPath ==
    /\ bootPc = "map_path"
    /\ gameMapPath' = IF mapFiles[PrimaryMapPath] # "absent" THEN PrimaryMapPath
                      ELSE FallbackMapPath
    /\ bootPc' = "load_map"
    /\ UNCHANGED <<bootException, bootSockets, mapFiles, gameMapData, loggerConfigured>>
    /\ UNCHANGED <<srvVars, cfgVars, spawnVars, storeVars, lockVars, aiVars, linkVars, hsVars,
                   extVars>>

\* line 172: pytmx.TiledMap loads the file or raises into the except clause
BootLoadMap ==
    /\ bootPc = "load_map"
    /\ IF mapFiles[gameMapPath] = "valid"
       THEN /\ gameMapData' = "loaded"
            /\ bootPc' = "log_loaded"
            /\ UNCHANGED bootException
       ELSE /\ bootException' = LoadError(mapFiles[gameMapPath])
            /\ bootPc' = "spatial_except"
            /\ UNCHANGED gameMapData
    /\ UNCHANGED <<bootSockets, mapFiles, gameMapPath, loggerConfigured>>
    /\ UNCHANGED <<srvVars, cfgVars, spawnVars, storeVars, lockVars, aiVars, linkVars, hsVars,
                   extVars>>

\* line 173: self.logger.info; self.logger is assigned at line 274, which __init__
\* reaches only at line 123, so here the attribute lookup raises AttributeError
BootLogLoaded ==
    /\ bootPc = "log_loaded"
    /\ IF loggerConfigured
       THEN /\ bootPc' = "extract_tiles"
            /\ UNCHANGED bootException
       ELSE /\ bootException' = "AttributeError"
            /\ bootPc' = "spatial_except"
    /\ UNCHANGED <<bootSockets, mapFiles, gameMapPath, gameMapData, loggerConfigured>>
    /\ UNCHANGED <<srvVars, cfgVars, spawnVars, storeVars, lockVars, aiVars, linkVars, hsVars,
                   extVars>>

\* mutant: the except clause without its raise
BootSpatialExceptSwallowing ==
    /\ bootPc = "spatial_except"
    /\ bootPc' = "protocol_handlers"
    /\ UNCHANGED <<bootException, bootSockets, mapFiles, gameMapPath, gameMapData, loggerConfigured>>
    /\ UNCHANGED <<srvVars, cfgVars, spawnVars, storeVars, lockVars, aiVars, linkVars, hsVars,
                   extVars>>

\* lines 187-189: the except clause logs and raises again; with self.logger not yet
\* assigned its own logging call raises AttributeError; either way an exception
\* leaves _initializeSpatialSystems and, with no handler in __init__, the constructor
BootSpatialExcept ==
    /\ bootPc = "spatial_except"
    /\ bootException' = IF loggerConfigured THEN bootException ELSE "AttributeError"
    /\ bootPc' = "raised"
    /\ UNCHANGED <<bootSockets, mapFiles, gameMapPath, gameMapData, loggerConfigured>>
    /\ UNCHANGED <<srvVars, cfgVars, spawnVars, storeVars, lockVars, aiVars, linkVars, hsVars,
                   extVars>>

\* lines 490-491: the exception leaves EnhancedGameServer(...); the module has no
\* handler, executeServerProtocol is not called and the process ends
BootUncaught ==
    /\ bootPc = "raised"
    /\ bootPc' = "exited"
    /\ UNCHANGED <<bootException, bootSockets, mapFiles, gameMapPath, gameMapData, loggerConfigured>>
    /\ UNCHANGED <<srvVars, cfgVars, spawnVars, storeVars, lockVars, aiVars, linkVars, hsVars,
                   extVars>>

BootNext ==
    \/ BootCreateSockets
    \/ BootCreateUdpSocket
    \/ BootInitState
    \/ BootInitLocks
    \/ BootMapPath
    \/ BootLoadMap
    \/ BootLogLoaded
    \/ BootSpatialExcept
    \/ BootUncaught

----------------------------------------------------------------------------
(* Specification of one spawn request, for every region index, boundary and count *)

FreeLocks == [l \in Locks |-> [owner |-> NoThread, count |-> 0]]

NoBot == EnhancedBot(<<0, 0>>, FALSE)

SpawnLocalsInit ==
    /\ spawnPc = "call"
    /\ regionBoundaries = <<0, 0>>
    /\ positions = {}
    /\ attempts = 0
    /\ lastAttempt = <<>>
    /\ spawnPositions = {}
    /\ spawnIter = {}
    /\ botIndex = 0
    /\ spawnXY = <<0, 0>>
    /\ enhancedBot = NoBot
    /\ spawnLog = <<>>

StoreInit ==
    /\ activePlayerData = <<>>
    /\ gameStateUpdates = <<>>
    /\ enhancedBotManager = <<>>
    /\ spatialPlayerGrid = EmptyGrid

LocksInit ==
    /\ rlock = FreeLocks
    /\ acquired_locks = [t \in Threads |-> <<>>]

\* the construction is over: every step of __init__ has been made
Booted ==
    /\ bootPc = "constructed"
    /\ bootException = "none"
    /\ bootSockets = 3
    /\ mapFiles = [f \in MapPaths |-> "valid"]
    /\ gameMapPath = PrimaryMapPath
    /\ gameMapData = "loaded"
    /\ loggerConfigured = TRUE

\* the threads of executeServerProtocol are not part of the specification
ServerIdle ==
    /\ mainPc = "off"
    /\ clientPc = "off"
    /\ connectedClientSessions = {}
    /\ lbPc = "off"
    /\ lbTrace = <<>>
    /\ shutdownRequested = FALSE

AiOff ==
    /\ aiPc = "off"
    /\ activeBots = <<>>
    /\ aiBot = 0
    /\ botSteps = 0

\* the state the discovery loop leaves when the link is confirmed
Confirmed ==
    /\ isConnectedToLoadBalancer = TRUE
    /\ hsPc = "done"
    /\ udpData = HANDSHAKE_REQUEST
    /\ hsException = NoException
    /\ loadBalancerSocket = 1
    /\ socketsCreated = 1
    /\ lbHandlerStarted = TRUE
    /\ hsRounds = 1
    /\ hsTrace = <<"handshake accepted", "acknowledgment sent", "confirmation received">>
    /\ hsFailure = NoFailure

\* no call of thread_safe_operation is followed step by step
TsoIdle == tso = <<>>

\* _buildOptimizedCollisionKdTree has not been called
TileIdle == kd = <<>>

\* there is no client
GameIdle == game = <<>>

CombatIdle == combat = <<>>

\* game_engine_client.py, lines 213-219: the three entries of weaponConfigurations
weaponConfigurations ==
    [i \in 0..2 |->
        CASE i = 0 -> [weaponName |-> "Plasma Rifle",
                       currentAmmunition |-> 50, maximumAmmunition |-> 50]
          [] i = 1 -> [weaponName |-> "Quantum Sniper",
                       currentAmmunition |-> 20, maximumAmmunition |-> 20]
          [] i = 2 -> [weaponName |-> "Fusion Cannon",
                       currentAmmunition |-> 7, maximumAmmunition |-> 7]]

\* the server's own threads call thread_safe_operation as part of their
\* actions, nothing is being indexed, and there is no client
ExtIdle ==
    /\ TsoIdle
    /\ TileIdle
    /\ GameIdle
    /\ CombatIdle

SpawnInit ==
    /\ serverRegionIndex \in RegionIndices
    /\ serverBoundaryCoordinates \in BoundaryValues \X BoundaryValues
    /\ numberOfBots \in 0..MaxBots
    /\ SpawnLocalsInit
    /\ StoreInit
    /\ LocksInit
    /\ Booted
    /\ ExtIdle
    /\ AiOff
    /\ Confirmed
    /\ ServerIdle

SpawnSpec == SpawnInit /\ [][SpawnNext]_vars /\ WF_vars(SpawnNext)

----------------------------------------------------------------------------
(* Specification of the LoadBalancerProtocol thread spawning bots while the       *)
(* EnhancedBotAI thread ticks and the bots behave                                 *)

ConcInit ==
    /\ serverRegionIndex = 2
    /\ serverBoundaryCoordinates = <<100, 0>>
    /\ numberOfBots \in 1..MaxBots
    /\ SpawnLocalsInit
    /\ StoreInit
    /\ LocksInit
    /\ Booted
    /\ ExtIdle
    /\ aiPc = "loop"
    /\ activeBots = <<>>
    /\ aiBot = 0
    /\ botSteps = 0
    /\ Confirmed
    /\ ServerIdle

ConcNext ==
    \/ SpawnNext
    \/ AiNext
    \/ BotBehaviour

ConcSpec ==
    /\ ConcInit
    /\ [][ConcNext]_vars
    /\ WF_vars(SpawnNext)
    /\ WF_vars(AiNext)

----------------------------------------------------------------------------
(* Specification of the discovery loop, from the state __init__ leaves *)

HsInit ==
    /\ serverRegionIndex = 0
    /\ serverBoundaryCoordinates = <<0, 0>>
    /\ numberOfBots = 0
    /\ spawnPc = "off"
    /\ regionBoundaries = <<0, 0>>
    /\ positions = {}
    /\ attempts = 0
    /\ lastAttempt = <<>>
    /\ spawnPositions = {}
    /\ spawnIter = {}
    /\ botIndex = 0
    /\ spawnXY = <<0, 0>>
    /\ enhancedBot = NoBot
    /\ spawnLog = <<>>
    /\ StoreInit
    /\ LocksInit
    /\ Booted
    /\ ExtIdle
    /\ AiOff
    /\ isConnectedToLoadBalancer = FALSE
    /\ hsPc = "loop"
    /\ udpData = ""
    /\ hsException = NoException
    /\ loadBalancerSocket = 1
    /\ socketsCreated = 1
    /\ lbHandlerStarted = FALSE
    /\ hsRounds = 0
    /\ hsTrace = <<>>
    /\ hsFailure = NoFailure
    /\ ServerIdle

HsSpec == HsInit /\ [][HsNext]_vars /\ WF_vars(HsNext)

----------------------------------------------------------------------------
(* Specification of the server from executeServerProtocol on: the main thread,   *)
(* the discovery loop, the LoadBalancerProtocol thread, the EnhancedBotAI thread *)
(* and the bots                                                                  *)

\* the state __init__ leaves: nothing spawned, no thread started
Constructed ==
    /\ serverRegionIndex = 0
    /\ serverBoundaryCoordinates = <<0, 0>>
    /\ numberOfBots = 0
    /\ spawnPc = "off"
    /\ regionBoundaries = <<0, 0>>
    /\ positions = {}
    /\ attempts = 0
    /\ lastAttempt = <<>>
    /\ spawnPositions = {}
    /\ spawnIter = {}
    /\ botIndex = 0
    /\ spawnXY = <<0, 0>>
    /\ enhancedBot = NoBot
    /\ spawnLog = <<>>
    /\ StoreInit
    /\ LocksInit
    /\ Booted
    /\ AiOff
    /\ isConnectedToLoadBalancer = FALSE
    /\ hsPc = "off"
    /\ udpData = ""
    /\ hsException = NoException
    /\ loadBalancerSocket = 1
    /\ socketsCreated = 1
    /\ lbHandlerStarted = FALSE
    /\ hsRounds = 0
    /\ hsTrace = <<>>
    /\ hsFailure = NoFailure
    /\ clientPc = "off"
    /\ connectedClientSessions = {}
    /\ lbPc = "off"
    /\ lbTrace = <<>>
    /\ shutdownRequested = FALSE

SrvInit ==
    /\ Constructed
    /\ ExtIdle
    /\ mainPc = "start"

SrvNext ==
    \/ MainNext
    \/ HsNext
    \/ LbNext
    \/ AiNext
    \/ BotBehaviour

SrvSpec ==
    /\ SrvInit
    /\ [][SrvNext]_vars
    /\ WF_vars(MainNext)
    /\ WF_vars(HsNext)
    /\ WF_vars(LbNext)
    /\ WF_vars(AiNext)

----------------------------------------------------------------------------
(* Specification of the construction: __main__ from line 489 on, for every state  *)
(* of the two map files                                                          *)

BootInit ==
    /\ serverRegionIndex = 0
    /\ serverBoundaryCoordinates = <<0, 0>>
    /\ numberOfBots = 0
    /\ spawnPc = "off"
    /\ regionBoundaries = <<0, 0>>
    /\ positions = {}
    /\ attempts = 0
    /\ lastAttempt = <<>>
    /\ spawnPositions = {}
    /\ spawnIter = {}
    /\ botIndex = 0
    /\ spawnXY = <<0, 0>>
    /\ enhancedBot = NoBot
    /\ spawnLog = <<>>
    /\ StoreInit
    /\ rlock = FreeLocks
    /\ acquired_locks = [t \in Threads |-> <<>>]
    /\ AiOff
    /\ isConnectedToLoadBalancer = FALSE
    /\ hsPc = "off"
    /\ udpData = ""
    /\ hsException = NoException
    /\ loadBalancerSocket = 1
    /\ socketsCreated = 1
    /\ lbHandlerStarted = FALSE
    /\ hsRounds = 0
    /\ hsTrace = <<>>
    /\ hsFailure = NoFailure
    /\ ServerIdle
    /\ bootPc = "sockets"
    /\ bootException = "none"
    /\ bootSockets = 0
    /\ mapFiles \in [MapPaths -> MapFileStates]
    /\ gameMapPath = ""
    /\ gameMapData = "unset"
    /\ loggerConfigured = FALSE
    /\ ExtIdle

BootSpec == BootInit /\ [][BootNext]_vars /\ WF_vars(BootNext)

----------------------------------------------------------------------------
(* Specification of the server with clients: the threads of SrvSpec and the       *)
(* ClientConnectionHandler thread                                                 *)

ClientServerNext ==
    \/ SrvNext
    \/ ClientNext

ClientSpec ==
    /\ SrvInit
    /\ [][ClientServerNext]_vars
    /\ WF_vars(MainNext)
    /\ WF_vars(HsNext)
    /\ WF_vars(LbNext)
    /\ WF_vars(AiNext)

----------------------------------------------------------------------------
(* Specification of the tick beside the spawn of one bot and the client sessions: *)
(* the server is operational and the LoadBalancerProtocol thread is spawning      *)

TickClientInit ==
    /\ serverRegionIndex = 2
    /\ serverBoundaryCoordinates = <<100, 0>>
    /\ numberOfBots = 1
    /\ SpawnLocalsInit
    /\ StoreInit
    /\ LocksInit
    /\ Booted
    /\ ExtIdle
    /\ aiPc = "loop"
    /\ activeBots = <<>>
    /\ aiBot = 0
    /\ botSteps = 0
    /\ Confirmed
    /\ mainPc = "operational"
    /\ clientPc = "serving"
    /\ connectedClientSessions = {}
    /\ lbPc = "spawning"
    /\ lbTrace = <<"GET_SERVER_INDEX", "GET_REGION_BOUNDARIES", "spawnEnhancedBotsInRegion">>
    /\ shutdownRequested = FALSE

TickClientNext ==
    \/ SpawnNext
    \/ AiNext
    \/ BotBehaviour
    \/ ClientNext

TickClientSpec ==
    /\ TickClientInit
    /\ [][TickClientNext]_vars
    /\ WF_vars(SpawnNext)
    /\ WF_vars(AiNext)

----------------------------------------------------------------------------
(* Specification of the discovery loop with a shutdown requested at any moment *)

ShutdownNext ==
    \/ HsNext
    \/ RequestShutdown

ShutdownSpec == HsInit /\ [][ShutdownNext]_vars /\ WF_vars(HsNext)

----------------------------------------------------------------------------
(* Specification of the Player Grid under any sequence of add_player calls *)

GridInit ==
    /\ Constructed
    /\ ExtIdle
    /\ mainPc = "off"

GridSpec == GridInit /\ [][GridAddOrUpdate]_vars

----------------------------------------------------------------------------
(* Claims about spawn generation, checked under SpawnSpec *)

Separated(p, q) == Abs(p[1] - q[1]) >= 100 \/ Abs(p[2] - q[2]) >= 100

\* the ids of the spawned bots
BotIds == DOMAIN enhancedBotManager

StoredXY(id) == <<activePlayerData[id].x, activePlayerData[id].y>>

GenerationBounded ==
    /\ spawnPc = "generate" =>
          /\ attempts \in 0..(10 * numberOfBots)
          /\ Cardinality(positions) <= numberOfBots
    /\ spawnPc \in {"enumerate", "store", "store_delta", "store_register", "grid", "done"} =>
          Cardinality(spawnPositions) \in 0..numberOfBots

GenerationStep ==
    spawnPc = "generate" =>
        \/ spawnPc' = "generate" /\ attempts' = attempts + 1 /\ attempts' <= 10 * numberOfBots
        \/ spawnPc' = "enumerate" /\ spawnPositions' = positions

\* C1: the generator's loop makes at most 10*N attempts (each iteration adds one to
\* the attempt counter, which never passes 10*N, so the loop ends) and it returns
\* k positions with 0 <= k <= N, also when the region cannot hold N positions.
C1_GenerationTerminatesWithinCap == [](GenerationBounded) /\ [][GenerationStep]_vars

\* the cap is hit in a region too cramped for the request
C1_CapHit ==
    /\ spawnPc = "generate"
    /\ numberOfBots = 2
    /\ attempts = 10 * numberOfBots
    /\ Cardinality(positions) < numberOfBots

\* C2: the accepted positions are pairwise at least 100 apart in at least one axis,
\* and the last candidate was rejected exactly when an accepted position was
\* closer than 100 to it in both axes.
C2_SeparatedRejectedExactlyWhenClose ==
    /\ \A p \in positions \cup spawnPositions : \A q \in positions \cup spawnPositions :
          p # q => Separated(p, q)
    /\ (spawnPc = "generate" /\ lastAttempt # <<>>) =>
          \/ /\ lastAttempt \in positions
             /\ \A q \in positions \ {lastAttempt} : Separated(lastAttempt, q)
          \/ /\ lastAttempt \notin positions
             /\ \E q \in positions : ~Separated(lastAttempt, q)

\* the last candidate was accepted although it is closer than 100 to an accepted
\* position in y, because it is exactly 100 away from it in x
C2_AcceptedAtExactly100 ==
    /\ spawnPc = "generate"
    /\ lastAttempt # <<>>
    /\ lastAttempt \in positions
    /\ \E q \in positions \ {lastAttempt} :
          /\ Abs(lastAttempt[1] - q[1]) = 100
          /\ Abs(lastAttempt[2] - q[2]) < 100

\* the rectangle of a region: regions 2 and 3 start at x = w, regions 3 and 4 at y = h
InRegionRect(p) ==
    LET w  == serverBoundaryCoordinates[1]
        h  == serverBoundaryCoordinates[2]
        x0 == IF serverRegionIndex \in {2, 3} THEN w ELSE 0
        y0 == IF serverRegionIndex \in {3, 4} THEN h ELSE 0
    IN  /\ x0 <= p[1] /\ p[1] <= x0 + w
        /\ y0 <= p[2] /\ p[2] <= y0 + h

\* C3: every position generated for a region, and every position a bot is spawned
\* at, lies within the region's rectangle, for region 1, 2, 3, 4 and an
\* unrecognised index, and every boundary size.
C3_PositionsWithinRegion ==
    /\ \A p \in positions \cup spawnPositions : InRegionRect(p)
    /\ \A id \in DOMAIN spawnLog : InRegionRect(spawnLog[id])

\* bots were spawned in region 4 of a 2000 x 2000 boundary
C3_SpawnedInRegion4 ==
    /\ spawnPc = "done"
    /\ serverRegionIndex = 4
    /\ serverBoundaryCoordinates = <<2000, 2000>>
    /\ Cardinality(DOMAIN spawnLog) = 2

Region2Of2000 == serverRegionIndex = 2 /\ serverBoundaryCoordinates = <<2000, 2000>>

StoredSeparated ==
    \A i \in BotIds : \A j \in BotIds : i # j => Separated(StoredXY(i), StoredXY(j))

\* C4 as stated: in region 2 with boundary (2000, 2000) every stored bot position
\* has 0 <= x <= 2000 and 0 <= y <= 2000, and the bots are separated.
C4_StoredWithinZeroTo2000 ==
    Region2Of2000 =>
        /\ \A id \in BotIds :
              /\ 0 <= activePlayerData[id].x /\ activePlayerData[id].x <= 2000
              /\ 0 <= activePlayerData[id].y /\ activePlayerData[id].y <= 2000
        /\ StoredSeparated

\* C4 as amended: in region 2 with boundary (2000, 2000) every stored bot position
\* has 2000 <= x <= 4000 and 0 <= y <= 2000, and the bots are separated.
C4_StoredWithinRegion2 ==
    Region2Of2000 =>
        /\ \A id \in BotIds :
              /\ 2000 <= activePlayerData[id].x /\ activePlayerData[id].x <= 4000
              /\ 0 <= activePlayerData[id].y /\ activePlayerData[id].y <= 2000
        /\ StoredSeparated

\* the spawn request for region 2 returned with two bots stored
C4_TwoBotsStoredInRegion2 ==
    /\ Region2Of2000
    /\ spawnPc = "done"
    /\ Cardinality(BotIds) = 2

\* bot id has its store record, its delta entry and its registry entry, and
\* add_player was called for it with the position it was spawned at
FullySpawned(id) ==
    /\ id \in DOMAIN activePlayerData
    /\ id \in DOMAIN gameStateUpdates
    /\ id \in DOMAIN enhancedBotManager
    /\ id \in DOMAIN spawnLog
    /\ spawnLog[id] \in spawnPositions
    /\ StoredXY(id) = spawnLog[id]
    /\ activePlayerData[id].health = 100

\* C5 as stated: when the spawn request has returned in a 2000 x 2000 region,
\* exactly numberOfBots bots exist and each is fully spawned.
C5_ExactlyRequestedCount ==
    (spawnPc = "done" /\ serverBoundaryCoordinates = <<2000, 2000>>) =>
        /\ Cardinality(BotIds) = numberOfBots
        /\ \A id \in BotIds : FullySpawned(id)

\* C5 as amended: when the spawn request has returned in a 2000 x 2000 region,
\* as many bots exist as the generator returned positions, at most numberOfBots,
\* with the ids 0..k-1, one per returned position, and each is fully spawned.
C5_OneBotPerReturnedPosition ==
    (spawnPc = "done" /\ serverBoundaryCoordinates = <<2000, 2000>>) =>
        LET k == Cardinality(spawnPositions) IN
        /\ k <= numberOfBots
        /\ BotIds = 0..(k - 1)
        /\ \A id \in BotIds : FullySpawned(id)
        /\ {spawnLog[id] : id \in BotIds} = spawnPositions

\* two bots were requested and both were spawned in a 2000 x 2000 region
C5_BothBotsSpawned ==
    /\ spawnPc = "done"
    /\ serverBoundaryCoordinates = <<2000, 2000>>
    /\ numberOfBots = 2
    /\ BotIds = {0, 1}


----------------------------------------------------------------------------
(* Claims about the locking of spawn and tick, checked under ConcSpec *)

\* C6: whenever another thread could take playerDataLock and spatialIndexLock
\* (nobody holds them), every bot in the store is in the grid at the position
\* the store holds for it.
C6_StoreAndGridAgree ==
    (rlock[playerDataLock].owner = NoThread /\ rlock[spatialIndexLock].owner = NoThread) =>
        \A id \in BotIds :
            /\ id \in DOMAIN spatialPlayerGrid.latest
            /\ spatialPlayerGrid.latest[id] = StoredXY(id)

\* the lock list of the with block a thread is entering or in
WantedLocks(t) ==
    IF t = LbThread
    THEN CASE spawnPc \in {"store", "store_delta", "store_register"} -> SpawnStoreLocks
           [] spawnPc = "grid"  -> GridLocks
           [] OTHER -> <<>>
    ELSE AiLocks

\* the thread is inside lock.acquire() and the lock is another thread's
Blocked(t) ==
    /\ Len(acquired_locks[t]) < Len(WantedLocks(t))
    /\ rlock[WantedLocks(t)[Len(acquired_locks[t]) + 1]].owner \notin {NoThread, t}

BlockedBy(t) == rlock[WantedLocks(t)[Len(acquired_locks[t]) + 1]].owner

Deadlocked ==
    \E T \in SUBSET Threads :
        /\ T # {}
        /\ \A t \in T : Blocked(t) /\ BlockedBy(t) \in T

\* positional data, then delta accumulation, then registry
GlobalRank(l) ==
    CASE l = playerDataLock      -> 1
      [] l = gameStateUpdateLock -> 2
      [] l = botManagerLock      -> 3
      [] l = spatialIndexLock    -> 4

\* C7: the locks a thread holds together were acquired in the global order
\* playerDataLock, gameStateUpdateLock, botManagerLock (spatialIndexLock is only
\* held alone), and no set of threads waits in a cycle for each other's locks.
C7_GlobalLockOrderNoDeadlock ==
    /\ \A t \in Threads : \A i \in 1..Len(acquired_locks[t]) : \A j \in 1..Len(acquired_locks[t]) :
          i < j => GlobalRank(acquired_locks[t][i]) < GlobalRank(acquired_locks[t][j])
    /\ \A t \in Threads :
          Len(acquired_locks[t]) > 1 => \A i \in 1..Len(acquired_locks[t]) :
              acquired_locks[t][i] # spatialIndexLock
    /\ \A l \in Locks : rlock[l].owner # NoThread =>
          \E i \in 1..Len(acquired_locks[rlock[l].owner]) : acquired_locks[rlock[l].owner][i] = l
    /\ ~Deadlocked

\* the spawner holds two locks while the movement tick waits for the first of them
C7_TickWaitsForSpawner ==
    /\ acquired_locks[LbThread] = <<playerDataLock, gameStateUpdateLock>>
    /\ aiPc = "move_store"
    /\ Blocked(AiThread)

----------------------------------------------------------------------------
(* Claims about the load-balancer handshake, checked under HsSpec *)

\* C8: whenever the link is confirmed, the round that confirmed it received the
\* versioned handshake packet and accepted it, then sent the acknowledgment, then
\* received the confirmation, in this order and without a failure; so a round
\* with another packet or with a failed confirmation leaves the link unconfirmed.
C8_ConfirmedOnlyAfterFullExchange ==
    isConnectedToLoadBalancer =>
        /\ hsTrace = <<"handshake accepted", "acknowledgment sent", "confirmation received">>
        /\ udpData = "SYNC_HANDSHAKE_v2"
        /\ hsFailure = NoFailure
        /\ hsPc = "done"

\* the link is confirmed in a second round, after a first round that failed
C8_ConfirmedInSecondRound ==
    /\ isConnectedToLoadBalancer
    /\ hsRounds = 2

\* C9: when a round has failed after its handshake packet was accepted and the
\* loop is back at its test, the link is not confirmed and loadBalancerSocket is
\* another socket than the one the failed round had.
C9_SocketReplacedAfterFailure ==
    (hsPc = "loop" /\ hsFailure.stage \in {"acknowledge", "confirm"}) =>
        /\ ~isConnectedToLoadBalancer
        /\ loadBalancerSocket # hsFailure.socket

RoundFailureHandled ==
    /\ hsPc = "raised" => hsPc' = "loop" /\ ~isConnectedToLoadBalancer'
    /\ (hsFailure = NoFailure /\ hsFailure' # NoFailure) =>
          hsPc' \in {"raised", "loop"} /\ ~isConnectedToLoadBalancer'
    /\ (hsPc = "loop" /\ ~isConnectedToLoadBalancer) => hsPc' = "recvfrom"

\* C10: no failure of a round leaves the discovery loop: a raised exception is
\* taken by an except clause and a False result skips the if, the thread is then
\* back at the loop test with the link unconfirmed, and from there it begins the
\* next round.
C10_FailuresStayInLoop ==
    /\ [](hsPc # "escaped" /\ (hsFailure # NoFailure => ~isConnectedToLoadBalancer))
    /\ [][RoundFailureHandled]_vars

\* a second round is failing at the confirmation after the first round failed
C10_SecondRoundFailing ==
    /\ hsRounds = 2
    /\ hsPc = "raised"
    /\ hsFailure.stage = "confirm"
    /\ hsFailure.kind = "OSError"

----------------------------------------------------------------------------
(* Claims about the server's threads, checked under SrvSpec *)

\* the steady-state loop has been left
SteadyLoopEnded == lbPc = "ended"

\* the tick loop is inside a tick
InTick == aiPc \in {"move_snapshot", "move_for", "move_store", "move_store_y", "move_grid",
                    "combat_snapshot", "combat_for", "combat_store", "sleep", "except"}

DemotionStops ==
    /\ (lbPc = "raised" /\ lbPc' # lbPc) => (lbPc' = "ended" /\ ~isConnectedToLoadBalancer')
    /\ SteadyLoopEnded => (lbPc' = "ended" /\ ~isConnectedToLoadBalancer')
    /\ (SteadyLoopEnded /\ ~InTick) => ~InTick'
    /\ (SteadyLoopEnded /\ aiPc = "stopped") =>
          /\ aiPc' = "stopped"
          /\ UNCHANGED <<activePlayerData, gameStateUpdates, spatialPlayerGrid>>

\* C11: a handler of the steady-state loop that raises leads to the except clause,
\* which demotes the link and ends the loop; the link then stays demoted, the tick
\* loop begins no tick any more (it finishes the one it is in), it stops, and once
\* it has stopped the store, the deltas and the grid are written no more.
C11_DemotionStopsLoopAndTicks ==
    /\ [](SteadyLoopEnded => ~isConnectedToLoadBalancer)
    /\ [][DemotionStops]_vars
    /\ (SteadyLoopEnded /\ aiPc # "off") ~> (aiPc = "stopped")

\* the link has been demoted while the tick loop is in the middle of a movement write
C11_DemotedDuringTick ==
    /\ SteadyLoopEnded
    /\ ~isConnectedToLoadBalancer
    /\ aiPc = "move_store_y"

\* the discovery loop is running
Discovering == hsPc \in {"loop", "recvfrom", "decode", "handshake", "acknowledge", "confirm", "raised"}

\* C12: after the steady-state loop has demoted the link, discovery eventually runs
\* again or the link is confirmed again.
C12_RediscoveryAfterDemotion ==
    (SteadyLoopEnded /\ ~isConnectedToLoadBalancer) ~> (Discovering \/ isConnectedToLoadBalancer)

MainStartsWorkers ==
    /\ (mainPc = "test" /\ isConnectedToLoadBalancer /\ mainPc' # mainPc) => mainPc' = "start_client"
    /\ (mainPc = "start_client" /\ mainPc' # mainPc) => (mainPc' = "start_ai" /\ clientPc' = "serving")
    /\ (mainPc = "start_ai" /\ mainPc' # mainPc) => (mainPc' = "operational" /\ aiPc' = "loop")

\* C13: when the main thread finds the link confirmed after the discovery thread
\* has ended, it starts the client-acceptance worker, then the bot tick loop, and
\* then reports the server fully operational, and it does get there.
C13_WorkersStartedWhenConfirmed ==
    /\ [](mainPc = "start_ai" => clientPc # "off")
    /\ [](mainPc = "operational" => (clientPc # "off" /\ aiPc # "off"))
    /\ [][MainStartsWorkers]_vars
    /\ (mainPc = "start_client") ~> (mainPc = "operational")

\* the server is fully operational after a handshake that needed two rounds
C13_OperationalAfterSecondRound ==
    /\ mainPc = "operational"
    /\ hsRounds = 2
    /\ clientPc = "serving"
    /\ aiPc = "loop"

LbOrder == <<"GET_SERVER_INDEX", "GET_REGION_BOUNDARIES", "spawnEnhancedBotsInRegion", "steady state">>

\* C14: the LoadBalancerProtocol thread runs only after the link was confirmed; it
\* requests the server index, then the region boundaries, then spawns the bots and
\* then enters the steady-state loop, so no spawn step and no bot precedes the
\* boundary request and the loop is entered only when spawning has returned.
C14_IndexBoundariesSpawnSteady ==
    /\ lbPc # "off" => (lbHandlerStarted /\ hsPc = "done")
    /\ Len(lbTrace) <= Len(LbOrder)
    /\ \A i \in 1..Len(lbTrace) : lbTrace[i] = LbOrder[i]
    /\ (spawnPc # "off" \/ DOMAIN enhancedBotManager # {}) => Len(lbTrace) >= 3
    /\ lbPc \in {"REGISTER_USER", "AUTHENTICATE_USER", "CACHE_PLAYER_DATA", "sleep", "raised"} =>
          (spawnPc = "done" /\ Len(lbTrace) = 4)

\* the steady-state loop is running with the bot population spawned
C14_SteadyAfterSpawn ==
    /\ lbPc = "AUTHENTICATE_USER"
    /\ DOMAIN enhancedBotManager # {}
    /\ lbTrace = LbOrder

----------------------------------------------------------------------------
(* Claims about bot ids and deltas beside client sessions, checked under ClientSpec *)

SpawnWritesNewKey ==
    (spawnPc = "store" /\ spawnPc' = "store_delta") =>
        /\ botIndex \notin DOMAIN activePlayerData
        /\ botIndex \notin DOMAIN gameStateUpdates

\* C15: no id is a session's and a bot's at once, and the store write of a spawned
\* bot never goes to a key that activePlayerData or gameStateUpdates already has.
C15_BotIdsNeverAliasPlayers ==
    /\ [](connectedClientSessions \cap DOMAIN enhancedBotManager = {})
    /\ [][SpawnWritesNewKey]_vars

DeltaKept ==
    \A id \in DOMAIN gameStateUpdates :
        /\ id \in DOMAIN gameStateUpdates'
        /\ DOMAIN gameStateUpdates[id] \subseteq DOMAIN gameStateUpdates'[id]

\* C17: no step of the server removes an entity's delta or a field accumulated in
\* it (the model has no flush, as src/ has none); in particular no spawn step does.
C17_DeltaAppendOnly == [][DeltaKept]_vars

----------------------------------------------------------------------------
(* Claims about the movement write and the deltas of the tick, checked under ConcSpec *)

StoreWrittenUnderLock ==
    \A id \in DOMAIN activePlayerData' :
        (id \notin DOMAIN activePlayerData \/ activePlayerData'[id] # activePlayerData[id]) =>
            /\ rlock[playerDataLock].owner \in Threads
            /\ (aiPc' # "move_store_y" /\ spawnPc' # "store_delta") =>
                  rlock'[playerDataLock].owner = NoThread

\* C16: a bot's record is written only by a thread that holds playerDataLock, and
\* the lock is let go only when the update is complete: while the movement tick has
\* written x and not yet y it still owns playerDataLock, so whoever holds that lock
\* reads x and y of one update.
C16_XYWrittenInOneCriticalSection ==
    /\ [](aiPc = "move_store_y" =>
            (rlock[playerDataLock].owner = AiThread /\ Holds(AiThread, MovementLocks)))
    /\ [][StoreWrittenUnderLock]_vars

\* the movement tick has written the new x of a bot that moved and not yet its y
C16_BetweenXAndY ==
    /\ aiPc = "move_store_y"
    /\ aiBot \in DOMAIN spawnLog
    /\ activePlayerData[aiBot].x = enhancedBotManager[aiBot].currentX
    /\ activePlayerData[aiBot].x # spawnLog[aiBot][1]

DeltaPending == \E id \in DOMAIN gameStateUpdates : gameStateUpdates[id] # <<>>

\* C18: whenever a delta holds a field, there is a later moment at which every
\* delta is empty.
C18_DeltasEventuallyFlushed ==
    DeltaPending ~> (\A id \in DOMAIN gameStateUpdates : gameStateUpdates[id] = <<>>)

----------------------------------------------------------------------------
(* Claim about the Player Grid, checked under GridSpec *)

CellsOfId(id) == {c \in DOMAIN spatialPlayerGrid.cells : id \in spatialPlayerGrid.cells[c]}

\* C19: after any sequence of add_player calls each id is in exactly one bucket, the
\* bucket (floor(x/cellSize), floor(y/cellSize)) of its latest coordinates, and each
\* bucket holds exactly the ids whose latest coordinates fall into it.
C19_OneCellPerIdMatchingLatest ==
    LET latest == spatialPlayerGrid.latest
        cells  == spatialPlayerGrid.cells
    IN  /\ \A id \in DOMAIN latest :
              CellsOfId(id) = {<<latest[id][1] \div 1000, latest[id][2] \div 1000>>}
        /\ \A c \in DOMAIN cells :
              cells[c] = {id \in DOMAIN latest :
                             <<latest[id][1] \div 1000, latest[id][2] \div 1000>> = c}
        /\ \A id \in 0..(MaxBots - 1) : id \notin DOMAIN latest => CellsOfId(id) = {}

\* two ids on the two sides of a bucket edge, in two buckets
C19_TwoIdsAcrossAnEdge ==
    /\ DOMAIN spatialPlayerGrid.latest = {0, 1}
    /\ spatialPlayerGrid.latest[0] = <<999, 1000>>
    /\ spatialPlayerGrid.latest[1] = <<1000, 999>>
    /\ DOMAIN spatialPlayerGrid.cells = {<<0, 1>>, <<1, 0>>}

----------------------------------------------------------------------------
(* Claim about shutdown, checked under ShutdownSpec *)

ExitsWhenShutdownRequested ==
    (shutdownRequested /\ hsPc = "loop" /\ hsPc' # hsPc) => hsPc' = "done"

\* C20: once a shutdown is requested, the discovery loop leaves at its next loop
\* test instead of beginning another round.
C20_DiscoveryExitsOnShutdown == [][ExitsWhenShutdownRequested]_vars

----------------------------------------------------------------------------
(* Claim about a failing spatial build, checked under BootSpec *)

\* the map file _initializeSpatialSystems ends up with cannot be loaded
MapUnusable ==
    \/ mapFiles[PrimaryMapPath] = "corrupt"
    \/ mapFiles[PrimaryMapPath] = "absent" /\ mapFiles[FallbackMapPath] # "valid"

\* the positions of __init__ behind _initializeSpatialSystems
BehindSpatialSystems == {"protocol_handlers", "logging", "constructed"}

\* no thread of executeServerProtocol has been started
NotServing ==
    /\ mainPc = "off"
    /\ hsPc = "off"
    /\ lbPc = "off"
    /\ clientPc = "off"
    /\ aiPc = "off"
    /\ ~isConnectedToLoadBalancer

SpatialFailurePropagates ==
    /\ (bootPc = "load_map" /\ bootPc' # bootPc /\ MapUnusable) => bootPc' = "spatial_except"
    /\ (bootPc = "spatial_except" /\ bootPc' # bootPc) =>
          (bootPc' = "raised" /\ bootException' # "none")
    /\ (bootPc = "raised" /\ bootPc' # bootPc) => bootPc' = "exited"
    /\ bootPc = "exited" => bootPc' = "exited"

\* C22: when the map is missing or corrupt, the failure of the spatial build leaves
\* the constructor as an exception: __init__ never gets behind
\* _initializeSpatialSystems, the process ends, and no thread of
\* executeServerProtocol (discovery, client acceptance, bot tick) is ever started.
C22_SpatialFailureIsFatal ==
    /\ [](MapUnusable => bootPc \notin BehindSpatialSystems)
    /\ [](bootPc \in {"spatial_except", "raised", "exited"} => bootException # "none")
    /\ [](bootPc # "constructed" => NotServing)
    /\ [][SpatialFailurePropagates]_vars
    /\ (bootPc = "spatial_except") ~> (bootPc = "exited")

\* the process has ended with no primary map and a corrupt legacy map
C22_ExitedOnCorruptLegacyMap ==
    /\ bootPc = "exited"
    /\ mapFiles[PrimaryMapPath] = "absent"
    /\ mapFiles[FallbackMapPath] = "corrupt"
    /\ gameMapPath = FallbackMapPath
    /\ gameMapData = "unset"
    /\ bootException # "none"
    /\ NotServing

----------------------------------------------------------------------------
(* Claims about the tick beside a spawn, checked under ConcSpec *)

\* the value of a combat delta: the bot's position and its target's
FiringSolution(b) == <<b.currentX, b.currentY, b.targetX, b.targetY>>

HasFire(delta) == delta # <<>> /\ "weapon_fire" \in DOMAIN delta

CombatDeltaStep ==
    /\ (aiPc = "combat_for" /\ activeBots' # activeBots) =>
          (aiPc' = "combat_store" <=> enhancedBotManager[Head(activeBots)].isCurrentlyEngaged)
    /\ (aiPc = "combat_for" /\ aiPc' = "sleep") => activeBots = <<>>
    /\ (aiPc = "combat_store" /\ aiPc' # aiPc) =>
          /\ HasFire(gameStateUpdates'[aiBot])
          /\ gameStateUpdates'[aiBot].weapon_fire = FiringSolution(enhancedBotManager[aiBot])
    /\ \A id \in DOMAIN gameStateUpdates' :
          (/\ HasFire(gameStateUpdates'[id])
           /\ \/ id \notin DOMAIN gameStateUpdates
              \/ ~HasFire(gameStateUpdates[id])
              \/ gameStateUpdates[id].weapon_fire # gameStateUpdates'[id].weapon_fire)
          => (aiPc = "combat_store" /\ id = aiBot)

\* C23: the combat loop of a tick tests every bot of its snapshot; a bot found
\* engaged gets weapon_fire = <<currentX, currentY, targetX, targetY>> written into
\* its delta, and a weapon_fire is written for no other bot and by no other step.
C23_WeaponFireForEngagedBotsOnly == [][CombatDeltaStep]_vars

\* one bot engaged with its combat delta written, the other neither
C23_OneBotFiredOtherNot ==
    /\ aiPc = "combat_for"
    /\ DOMAIN enhancedBotManager = {0, 1}
    /\ \E id \in {0, 1} :
          /\ enhancedBotManager[id].isCurrentlyEngaged
          /\ HasFire(gameStateUpdates[id])
          /\ gameStateUpdates[id].weapon_fire = FiringSolution(enhancedBotManager[id])
          /\ ~enhancedBotManager[1 - id].isCurrentlyEngaged
          /\ ~HasFire(gameStateUpdates[1 - id])

\* C24: at every moment of a spawn running beside the tick loop, each id of the
\* registry has a record in activePlayerData and an entry in gameStateUpdates, and
\* the bot a tick is about to write for has both.
C24_RegisteredBotsHaveRecords ==
    /\ \A id \in DOMAIN enhancedBotManager :
          id \in DOMAIN activePlayerData /\ id \in DOMAIN gameStateUpdates
    /\ aiPc \in {"move_store", "move_store_y", "combat_store"} =>
          aiBot \in DOMAIN activePlayerData /\ aiBot \in DOMAIN gameStateUpdates

\* the spawn is between its writes for the second bot while the tick is about to
\* write the first bot's movement
C24_TickBesideHalfWrittenBot ==
    /\ spawnPc = "store_register"
    /\ botIndex = 1
    /\ botIndex \in DOMAIN activePlayerData
    /\ botIndex \notin DOMAIN enhancedBotManager
    /\ aiPc = "move_store"
    /\ aiBot = 0

\* the position the bot object holds
BotXY(id) == <<enhancedBotManager[id].currentX, enhancedBotManager[id].currentY>>

\* C26: a bot that has stopped moving at a position the store does not hold is
\* eventually stored at that position.
C26_StoreReflectsFinalPosition ==
    \A id \in 0..(MaxBots - 1) :
        (/\ id \in DOMAIN enhancedBotManager
         /\ ~enhancedBotManager[id].isCurrentlyMoving
         /\ StoredXY(id) # BotXY(id))
        ~> (id \in DOMAIN enhancedBotManager /\ StoredXY(id) = BotXY(id))

GridGetsStoredPair ==
    (aiPc = "move_grid" /\ aiPc' = "move_for") =>
        spatialPlayerGrid'.latest[aiBot] = StoredXY(aiBot)

\* C27: when a movement step has written the store and the delta of a bot, the two
\* hold the same (x, y), and the grid insert of that step is given that pair.
C27_OnePairPerMovementStep ==
    /\ [](aiPc = "move_grid" =>
            /\ gameStateUpdates[aiBot].x = activePlayerData[aiBot].x
            /\ gameStateUpdates[aiBot].y = activePlayerData[aiBot].y)
    /\ [][GridGetsStoredPair]_vars

----------------------------------------------------------------------------
(* Claims about what a tick changes (checked under TickClientSpec), in which order *)
(* (ConcSpec), and what an exception does to it (ConcSpec)                        *)

MovePcs   == {"move_snapshot", "move_for", "move_store", "move_store_y", "move_grid"}
CombatPcs == {"combat_snapshot", "combat_for", "combat_store"}

\* the EnhancedBotAI thread makes the step (entering a with block changes neither)
AiStepped == aiPc' # aiPc \/ activeBots' # activeBots

Fields(delta) == IF delta = <<>> THEN {} ELSE DOMAIN delta

MovementFrame ==
    (aiPc \in MovePcs /\ AiStepped) =>
        /\ DOMAIN activePlayerData' = DOMAIN activePlayerData
        /\ DOMAIN gameStateUpdates' = DOMAIN gameStateUpdates
        /\ enhancedBotManager' = enhancedBotManager
        /\ connectedClientSessions' = connectedClientSessions
        /\ \A id \in DOMAIN activePlayerData :
              /\ activePlayerData'[id].type = activePlayerData[id].type
              /\ activePlayerData'[id].angle = activePlayerData[id].angle
              /\ activePlayerData'[id].health = activePlayerData[id].health
              /\ (id # aiBot \/ aiPc \notin {"move_store", "move_store_y"}) =>
                    activePlayerData'[id] = activePlayerData[id]
        /\ \A id \in DOMAIN gameStateUpdates :
              /\ (id # aiBot \/ aiPc # "move_store_y") =>
                    gameStateUpdates'[id] = gameStateUpdates[id]
              /\ Fields(gameStateUpdates'[id]) \subseteq Fields(gameStateUpdates[id]) \cup {"x", "y"}
              /\ \A k \in Fields(gameStateUpdates[id]) \ {"x", "y"} :
                    /\ k \in Fields(gameStateUpdates'[id])
                    /\ gameStateUpdates'[id][k] = gameStateUpdates[id][k]
        /\ aiPc # "move_grid" => spatialPlayerGrid' = spatialPlayerGrid
        /\ \A id \in DOMAIN spatialPlayerGrid'.latest :
              id # aiBot => /\ id \in DOMAIN spatialPlayerGrid.latest
                            /\ spatialPlayerGrid'.latest[id] = spatialPlayerGrid.latest[id]
        /\ DOMAIN spatialPlayerGrid.latest \subseteq DOMAIN spatialPlayerGrid'.latest
        /\ (aiPc = "move_for" /\ activeBots' # activeBots) =>
              (aiPc' = "move_store" <=> enhancedBotManager[Head(activeBots)].isCurrentlyMoving)

\* C28: the steps of the movement half of a tick change nothing but the x and y of
\* the record, the x and y of the delta and the grid position of the bot they are
\* about, a bot found moving by the loop's test; every other record, delta and grid
\* position, the type, angle and health of every record and the key sets of the
\* store, the delta map and the registry stay as they are.
C28_MovementChangesOnlyXY == [][MovementFrame]_vars

\* the movement half has rewritten the x of the bot beside a player that has moved
C28_MovedBotBesidePlayer ==
    /\ aiPc = "move_store_y"
    /\ aiBot = 0
    /\ DOMAIN spawnLog = {0}
    /\ activePlayerData[0].x = spawnLog[0][1] + BotStride
    /\ connectedClientSessions = {25}
    /\ activePlayerData[25].x = PlayerX

TickOrder ==
    /\ (aiPc' = "combat_snapshot" /\ aiPc # "combat_snapshot") =>
          (aiPc = "move_for" /\ activeBots = <<>>)
    /\ (aiPc \in CombatPcs /\ AiStepped) =>
          /\ aiPc' \in CombatPcs \cup {"sleep"}
          /\ activePlayerData' = activePlayerData
          /\ spatialPlayerGrid' = spatialPlayerGrid
          /\ \A id \in DOMAIN gameStateUpdates : \A k \in {"x", "y"} :
                /\ k \in Fields(gameStateUpdates'[id]) <=> k \in Fields(gameStateUpdates[id])
                /\ k \in Fields(gameStateUpdates[id]) =>
                      gameStateUpdates'[id][k] = gameStateUpdates[id][k]
    /\ (aiPc \in MovePcs /\ AiStepped) =>
          \A id \in DOMAIN gameStateUpdates :
              /\ HasFire(gameStateUpdates'[id]) <=> HasFire(gameStateUpdates[id])
              /\ HasFire(gameStateUpdates[id]) =>
                    gameStateUpdates'[id].weapon_fire = gameStateUpdates[id].weapon_fire

\* C29: the combat half of a tick begins only when the movement loop has gone
\* through its whole snapshot with no position write left open; from then to the
\* tick's sleep the thread writes no position to the store, the deltas or the grid,
\* and the movement half writes no combat delta.
C29_MovementBeforeCombat ==
    /\ [](aiPc \in CombatPcs =>
            /\ playerDataLock \notin {acquired_locks[AiThread][i] : i \in 1..Len(acquired_locks[AiThread])}
            /\ spatialIndexLock \notin {acquired_locks[AiThread][i] : i \in 1..Len(acquired_locks[AiThread])})
    /\ [][TickOrder]_vars

\* a tick that wrote the first bot's movement is writing the second bot's combat delta
C29_CombatAfterMovementWritten ==
    /\ aiPc = "combat_store"
    /\ aiBot = 1
    /\ Holds(AiThread, CombatLocks)
    /\ "x" \in Fields(gameStateUpdates[0])
    /\ 0 \in DOMAIN spatialPlayerGrid.latest
    /\ enhancedBotManager[0].isCurrentlyMoving

TickSurvives ==
    /\ (aiPc = "except" /\ aiPc' # aiPc) => aiPc' = "loop"
    /\ (aiPc = "loop" /\ aiPc' # aiPc) =>
          aiPc' = (IF isConnectedToLoadBalancer THEN "move_snapshot" ELSE "stopped")
    /\ (aiPc # "loop" /\ aiPc' = "stopped") => aiPc = "stopped"

\* C30: an exception raised inside a tick is caught by the loop's except clause
\* with no lock left held; the thread goes back to the while test, which starts the
\* next tick as long as the link is confirmed, and the thread ends nowhere else.
C30_TickLoopSurvivesException ==
    /\ [](aiPc = "except" => acquired_locks[AiThread] = <<>>)
    /\ [][TickSurvives]_vars
    /\ (aiPc = "except") ~> (aiPc = "move_snapshot")

\* the grid insert of a moved bot has raised: the store holds the new position, the
\* grid the old one, and the except clause is running
C30_GridInsertRaised ==
    /\ aiPc = "except"
    /\ aiBot \in DOMAIN spatialPlayerGrid.latest
    /\ StoredXY(aiBot) = BotXY(aiBot)
    /\ spatialPlayerGrid.latest[aiBot] # StoredXY(aiBot)
    /\ acquired_locks[AiThread] = <<>>

----------------------------------------------------------------------------
(* Claim about an error of the LoadBalancerProtocol thread, checked under SrvSpec *)

\* C25: whenever the LoadBalancerProtocol thread has stopped because of an error,
\* isConnectedToLoadBalancer is False.
C25_WorkerErrorDemotesLink ==
    lbPc \in {"died", "ended"} => ~isConnectedToLoadBalancer

----------------------------------------------------------------------------
(* Claim about the order of the constructor's steps, checked under BootSpec *)

\* the steps of __init__ that call self.logger: the logging calls of
\* _initializeSpatialSystems (lines 173 and 188)
LoggerUsingSteps == {"log_loaded", "spatial_except"}

\* C31: every initialization step that uses the server's logger runs after the
\* logger has been configured, and with a valid map the constructor fails for
\* nothing but a socket that cannot be bound.
C31_LoggerConfiguredBeforeUse ==
    /\ bootPc \in LoggerUsingSteps => loggerConfigured
    /\ (bootPc = "exited" /\ ~MapUnusable) => bootException = "OSError"

----------------------------------------------------------------------------
(* Claim about the handler tables, checked under SrvSpec *)

\* the tags the protocol recognizes: 13 client messages, 2 snapshot requests
\* and 6 control messages of the load balancer
RecognizedClientTags ==
    {"PLAYER_MOVEMENT", "WEAPON_FIRE", "HEALTH_UPDATE", "POWER_ACTIVATION", "VIEW_ANGLE",
     "USER_LOGIN", "USER_REGISTRATION", "CURRENCY_UPDATE", "AMMUNITION_UPDATE",
     "INVENTORY_ACTION", "EXPLOSIVE_ACTIVATION", "CHAT_MESSAGE", "BOT_DAMAGE"}
RecognizedRequestTags == {"DATA_REQUEST", "FULL_DATA_REQUEST"}
RecognizedControlTags ==
    {"GET_SERVER_INDEX", "GET_REGION_BOUNDARIES", "SEND_SERVER_INFO",
     "REGISTER_USER", "AUTHENTICATE_USER", "CACHE_PLAYER_DATA"}

\* C34: each handler table is registered for exactly the recognized tags of its
\* kind (13 client tags, the 2 request tags, the 6 control tags), no tag is in two
\* tables, and whenever the LoadBalancerProtocol thread is at a lookup, the tag it
\* looks up is registered in the load-balancer table.
C34_TablesCoverRecognizedTags ==
    /\ DOMAIN clientProtocolHandlers = RecognizedClientTags
    /\ Cardinality(DOMAIN clientProtocolHandlers) = 13
    /\ DOMAIN responseProtocolHandlers = RecognizedRequestTags
    /\ DOMAIN loadBalancerHandlers = RecognizedControlTags
    /\ Cardinality(DOMAIN loadBalancerHandlers) = 6
    /\ DOMAIN clientProtocolHandlers \cap DOMAIN responseProtocolHandlers = {}
    /\ DOMAIN clientProtocolHandlers \cap DOMAIN loadBalancerHandlers = {}
    /\ DOMAIN responseProtocolHandlers \cap DOMAIN loadBalancerHandlers = {}
    /\ LbLookups \subseteq DOMAIN loadBalancerHandlers
    /\ lbPc \in LbLookups => lbPc \in DOMAIN loadBalancerHandlers

\* the thread is at the last lookup of its steady-state loop, having made the
\* four before it
C34_WorkerAtLastLookup ==
    /\ lbPc = "CACHE_PLAYER_DATA"
    /\ Len(lbTrace) = 4
    /\ loadBalancerHandlers[lbPc] = "cache_player_data"

----------------------------------------------------------------------------
(* thread_safe_operation, lines 277-288, step by step: any thread calls it with   *)
(* any list of locks                                                              *)

\* longest locks argument explored
MaxLockArgs == 2

\* the locks the argument lists are explored with
TsoLockChoices == {playerDataLock, gameStateUpdateLock}

\* the argument lists explored, repetitions of a lock included
TsoLockLists == UNION {[1..n -> TsoLockChoices] : n \in 0..MaxLockArgs}

\* the with statement is entered; line 279: acquired_locks = []
TsoCall(t) ==
    /\ tsoPc[t] \in {"idle", "done"}
    /\ \E ls \in TsoLockLists :
          tso' = [tso EXCEPT
                     !.tsoPc[t] = "acquiring",
                     !.tsoLocks[t] = ls,
                     !.tsoBefore[t] =
                         [l \in Locks |-> IF rlock[l].owner = t THEN rlock[l].count ELSE 0],
                     !.tsoReleased[t] = <<>>,
                     !.tsoExit[t] = "none"]
    /\ acquired_locks' = [acquired_locks EXCEPT ![t] = <<>>]
    /\ UNCHANGED <<rlock, serverVars, tileVars, gameVars, combatVars>>

\* lines 281-283: the next lock of the argument is acquired and appended; the
\* thread waits while another thread owns the lock
TsoAcquire(t) ==
    /\ tsoPc[t] = "acquiring"
    /\ AcquireNext(t, tsoLocks[t])
    /\ UNCHANGED <<tsoVars, serverVars, tileVars, gameVars, combatVars>>

\* line 282: acquire() raises; the lock is not acquired and not appended
TsoAcquireRaises(t) ==
    /\ tsoPc[t] = "acquiring"
    /\ Len(acquired_locks[t]) < Len(tsoLocks[t])
    /\ tso' = [tso EXCEPT !.tsoPc[t] = "finally", !.tsoExit[t] = "acquire raised"]
    /\ UNCHANGED <<lockVars, serverVars, tileVars, gameVars, combatVars>>

\* line 284: every lock is acquired, the body of the with statement begins
TsoYield(t) ==
    /\ tsoPc[t] = "acquiring"
    /\ Len(acquired_locks[t]) = Len(tsoLocks[t])
    /\ tso' = [tso EXCEPT !.tsoPc[t] = "body"]
    /\ UNCHANGED <<lockVars, serverVars, tileVars, gameVars, combatVars>>

\* lines 284-285: the body ends, by returning or by raising; either way the
\* generator goes on into its finally clause
TsoBodyEnds(t) ==
    /\ tsoPc[t] = "body"
    /\ \E how \in {"body returned", "body raised"} :
          tso' = [tso EXCEPT !.tsoPc[t] = "finally", !.tsoExit[t] = how]
    /\ UNCHANGED <<lockVars, serverVars, tileVars, gameVars, combatVars>>

\* the lock the loop of line 286 releases next: reversed(acquired_locks), from
\* the last one acquired
NextToRelease(t) == acquired_locks[t][Len(acquired_locks[t]) - Len(tsoReleased[t])]

\* one lock.release(): the count goes down by one, the owner goes with the last
ReleaseOne(l) ==
    [rlock EXCEPT ![l] = [owner |-> IF @.count = 1 THEN NoThread ELSE @.owner,
                          count |-> @.count - 1]]

\* mutant: the finally clause releasing in the order of acquisition
TsoReleaseForward(t) ==
    /\ tsoPc[t] = "finally"
    /\ Len(tsoReleased[t]) < Len(acquired_locks[t])
    /\ LET l == acquired_locks[t][Len(tsoReleased[t]) + 1] IN
          /\ rlock' = ReleaseOne(l)
          /\ tso' = [tso EXCEPT !.tsoReleased[t] = Append(@, l)]
    /\ UNCHANGED <<acquired_locks, serverVars, tileVars, gameVars, combatVars>>

\* lines 286-287: one iteration of the release loop
TsoRelease(t) ==
    /\ tsoPc[t] = "finally"
    /\ Len(tsoReleased[t]) < Len(acquired_locks[t])
    /\ LET l == NextToRelease(t) IN
          /\ rlock' = ReleaseOne(l)
          /\ tso' = [tso EXCEPT !.tsoReleased[t] = Append(@, l)]
    /\ UNCHANGED <<acquired_locks, serverVars, tileVars, gameVars, combatVars>>

\* line 286: the release loop is through, the with statement is left (an
\* exception goes on to the caller)
TsoLeave(t) ==
    /\ tsoPc[t] = "finally"
    /\ Len(tsoReleased[t]) = Len(acquired_locks[t])
    /\ tso' = [tso EXCEPT !.tsoPc[t] = "done"]
    /\ UNCHANGED <<lockVars, serverVars, tileVars, gameVars, combatVars>>

TsoNext ==
    \E t \in Threads :
        \/ TsoCall(t)
        \/ TsoAcquire(t)
        \/ TsoAcquireRaises(t)
        \/ TsoYield(t)
        \/ TsoBodyEnds(t)
        \/ TsoRelease(t)
        \/ TsoLeave(t)

\* the server is constructed and no thread is inside a block
TsoInit ==
    /\ Constructed
    /\ mainPc = "off"
    /\ tso = [tsoPc       |-> [t \in Threads |-> "idle"],
              tsoLocks    |-> [t \in Threads |-> <<>>],
              tsoBefore   |-> [t \in Threads |-> [l \in Locks |-> 0]],
              tsoReleased |-> [t \in Threads |-> <<>>],
              tsoExit     |-> [t \in Threads |-> "none"]]
    /\ TileIdle
    /\ GameIdle
    /\ CombatIdle

TsoSpec == TsoInit /\ [][TsoNext]_vars

----------------------------------------------------------------------------
(* Claim about thread_safe_operation, checked under TsoSpec *)

Reversed(q) == [i \in 1..Len(q) |-> q[Len(q) + 1 - i]]

IsPrefixOf(p, q) == Len(p) <= Len(q) /\ \A i \in 1..Len(p) : p[i] = q[i]

Occurrences(q, l) == Cardinality({i \in 1..Len(q) : q[i] = l})

\* how often thread t holds lock l
HeldCount(t, l) == IF rlock[l].owner = t THEN rlock[l].count ELSE 0

\* thread t is inside thread_safe_operation or has left it
TsoEntered(t) == tsoPc[t] # "idle"

\* C32: thread_safe_operation acquires the given locks in argument order, the body
\* runs with all of them, and however the block is left (the body returns, the
\* body raises, an acquire raises) the finally clause releases exactly the locks
\* that were acquired, last acquired first; once the block is left the thread
\* holds every lock as often as before the call.
C32_LocksReleasedInReverse ==
    \A t \in Threads :
        TsoEntered(t) =>
            /\ IsPrefixOf(acquired_locks[t], tsoLocks[t])
            /\ tsoPc[t] = "body" => acquired_locks[t] = tsoLocks[t]
            /\ tsoExit[t] \in {"body returned", "body raised"} =>
                  acquired_locks[t] = tsoLocks[t]
            /\ IsPrefixOf(tsoReleased[t], Reversed(acquired_locks[t]))
            /\ tsoPc[t] \in {"acquiring", "body"} => tsoReleased[t] = <<>>
            /\ \A l \in Locks :
                  HeldCount(t, l) = tsoBefore[t][l] + Occurrences(acquired_locks[t], l)
                                       - Occurrences(tsoReleased[t], l)
            /\ tsoPc[t] = "done" =>
                  /\ tsoReleased[t] = Reversed(acquired_locks[t])
                  /\ \A l \in Locks : HeldCount(t, l) = tsoBefore[t][l]

\* a thread has left a block whose second acquire raised: the one lock it had
\* acquired is released, while the other thread is in the body of its own block
\* with two different locks
C32_LeftAfterFailedAcquire ==
    /\ tsoPc[AiThread] = "done"
    /\ tsoExit[AiThread] = "acquire raised"
    /\ tsoLocks[AiThread] = <<playerDataLock, gameStateUpdateLock>>
    /\ acquired_locks[AiThread] = <<playerDataLock>>
    /\ tsoReleased[AiThread] = <<playerDataLock>>
    /\ tsoPc[LbThread] = "body"
    /\ acquired_locks[LbThread] = <<gameStateUpdateLock, playerDataLock>>

\* a thread has left, by an exception of the body, a block that took two
\* different locks: they were released last acquired first
C32_TwoLocksReleasedAfterRaise ==
    /\ tsoPc[LbThread] = "done"
    /\ tsoExit[LbThread] = "body raised"
    /\ acquired_locks[LbThread] = <<playerDataLock, gameStateUpdateLock>>
    /\ tsoReleased[LbThread] = <<gameStateUpdateLock, playerDataLock>>
    /\ rlock[playerDataLock].owner # LbThread
    /\ rlock[gameStateUpdateLock].owner # LbThread

----------------------------------------------------------------------------
(* _buildOptimizedCollisionKdTree, lines 206-223, for any set of collision tiles *)

\* most tiles a set is explored with
MaxTiles == 3

\* the tiles (x, width, y, height) the sets are drawn from: two concentric
\* rectangles, and two tiles apart from them, one with a centre between the integers
TileUniverse == {<<0, 2, 0, 2>>, <<-1, 4, 1, 4>>, <<10, 2, 0, 2>>, <<0, 3, 5, 1>>}

\* lines 209-210: (x + width / 2, y - height / 2) of a tile; the division is
\* Python's true division, so the pair is kept doubled: <<2x + width, 2y - height>>
TileCentre(tile) == <<2 * tile[1] + tile[2], 2 * tile[3] - tile[4]>>

\* the orders in which iterating a set may yield its elements
IterationOrders(S) ==
    {q \in [1..Cardinality(S) -> S] : \A i, j \in 1..Cardinality(S) : q[i] = q[j] => i = j}

\* lines 208-211: the list comprehension walks the set, in some order, and
\* computes each tile's centre
KdPositions ==
    /\ kdPc = "positions"
    /\ \E q \in IterationOrders(collidableElements) :
          kd' = [kd EXCEPT !.kdPc = "kdtree",
                           !.tileOrder = q,
                           !.collisionPositions = [i \in 1..Len(q) |-> TileCentre(q[i])]]
    /\ UNCHANGED <<serverVars, lockVars, tsoVars, gameVars, combatVars>>

\* line 214: KDTree(collisionPositions, leafsize=16) indexes every entry of the list
KdBuildTree ==
    /\ kdPc = "kdtree"
    /\ kd' = [kd EXCEPT !.kdPc = "mapping"]
    /\ UNCHANGED <<serverVars, lockVars, tsoVars, gameVars, combatVars>>

\* a dict comprehension over pairs: a key that comes again replaces the value it had
DictOfPairs(keys, values) ==
    [k \in {keys[i] : i \in 1..Len(keys)} |->
        values[CHOOSE i \in 1..Len(keys) :
                  /\ keys[i] = k
                  /\ \A j \in 1..Len(keys) : keys[j] = k => j <= i]]

\* lines 217-222: zip walks the list and the set again (unmodified, the set yields
\* the same order) and the dict comprehension stores position -> tile
KdMapping ==
    /\ kdPc = "mapping"
    /\ kd' = [kd EXCEPT !.kdPc = "done",
                        !.positionToTileMapping = DictOfPairs(collisionPositions, tileOrder)]
    /\ UNCHANGED <<serverVars, lockVars, tsoVars, gameVars, combatVars>>

KdNext ==
    \/ KdPositions
    \/ KdBuildTree
    \/ KdMapping

\* the function is called with any set of 1..MaxTiles tiles
KdInit ==
    /\ Constructed
    /\ mainPc = "off"
    /\ TsoIdle
    /\ GameIdle
    /\ CombatIdle
    /\ \E S \in {T \in SUBSET TileUniverse : Cardinality(T) \in 1..MaxTiles} :
          kd = [kdPc |-> "positions", collidableElements |-> S, tileOrder |-> <<>>,
                collisionPositions |-> <<>>, positionToTileMapping |-> <<>>]

KdSpec == KdInit /\ [][KdNext]_vars /\ WF_vars(KdNext)

----------------------------------------------------------------------------
(* Claim about the tile mapping, checked under KdSpec *)

\* C33: once the mapping is built, every tile of the input set is indexed at its
\* centre and the mapping leads from that centre back to the same tile, also when
\* two different tiles have the same centre.
C33_EveryTileMappedBack ==
    kdPc = "done" =>
        \A tile \in collidableElements :
            /\ \E i \in 1..Len(collisionPositions) : collisionPositions[i] = TileCentre(tile)
            /\ TileCentre(tile) \in DOMAIN positionToTileMapping
            /\ positionToTileMapping[TileCentre(tile)] = tile

----------------------------------------------------------------------------
(* game_engine_client.py: initiate_game_protocol from initializeGameWorld on,     *)
(* executeMainGameLoop, and the two background loops that test isGameRunning.     *)
(* The client is constructed (isGameRunning = False, line 160), connected and     *)
(* authenticated. A body that takes the state lock of the GameStateManager for    *)
(* the time of one assignment is one step.                                        *)

\* lines 302-337, 626-631: initializeGameWorld loads the map, starts the
\* OptimizedMapRenderer thread and returns True, after which the protocol calls
\* executeMainGameLoop; without a loadable map it returns False and the protocol
\* returns
GameInitializeWorld ==
    /\ gamePc = "init_world"
    /\ \/ game' = [game EXCEPT !.gameWorldMap = "loaded",
                               !.renderPc = "test",
                               !.gamePc = "set_running"]
       \/ game' = [game EXCEPT !.gamePc = "no_world"]
    /\ UNCHANGED <<serverVars, lockVars, tsoVars, tileVars, combatVars>>

\* line 470: self.isGameRunning = True
GameSetRunning ==
    /\ gamePc = "set_running"
    /\ game' = [game EXCEPT !.isGameRunning = TRUE, !.gamePc = "start_background"]
    /\ UNCHANGED <<serverVars, lockVars, tsoVars, tileVars, combatVars>>

\* lines 473, 501-517: the ExplosiveEffects thread is started (and the
\* NetworkProcessor thread, whose loop is not in the source)
GameStartBackground ==
    /\ gamePc = "start_background"
    /\ game' = [game EXCEPT !.explosivePc = "test", !.gamePc = "loop_test"]
    /\ UNCHANGED <<serverVars, lockVars, tsoVars, tileVars, combatVars>>

\* line 476: while self.isGameRunning; a loop that ends here goes to the finally
GameLoopTest ==
    /\ gamePc = "loop_test"
    /\ game' = [game EXCEPT !.gamePc = IF isGameRunning THEN "input" ELSE "finally"]
    /\ UNCHANGED <<serverVars, lockVars, tsoVars, tileVars, combatVars>>

\* lines 480, 519-532: the events are processed; a QUIT event clears the flag and
\* the frame goes on
GameInput ==
    /\ gamePc = "input"
    /\ \/ game' = [game EXCEPT !.gamePc = "update"]
       \/ game' = [game EXCEPT !.isGameRunning = FALSE,
                               !.loopExit = "quit",
                               !.gamePc = "update"]
    /\ UNCHANGED <<serverVars, lockVars, tsoVars, tileVars, combatVars>>

\* lines 483-492: the state update, the frame, the frame time and the clock tick
GameFrame ==
    /\ gamePc = "update"
    /\ game' = [game EXCEPT !.gamePc = "loop_test"]
    /\ UNCHANGED <<serverVars, lockVars, tsoVars, tileVars, combatVars>>

\* lines 476-492: a step of the loop body raises, or the user's interrupt arrives
\* during it
GameStepRaises ==
    /\ gamePc \in {"input", "update"}
    /\ \E e \in {"KeyboardInterrupt", "Exception"} :
          game' = [game EXCEPT !.loopExit = e, !.gamePc = "except"]
    /\ UNCHANGED <<serverVars, lockVars, tsoVars, tileVars, combatVars>>

\* lines 494-497: either except clause logs; the finally clause follows
GameExcept ==
    /\ gamePc = "except"
    /\ game' = [game EXCEPT !.gamePc = "finally"]
    /\ UNCHANGED <<serverVars, lockVars, tsoVars, tileVars, combatVars>>

\* lines 498-499, 588-590: the finally clause calls _performGameCleanup
GameEnterCleanup ==
    /\ gamePc = "finally"
    /\ game' = [game EXCEPT !.cleanupRuns = @ + 1, !.gamePc = "cleanup"]
    /\ UNCHANGED <<serverVars, lockVars, tsoVars, tileVars, combatVars>>

\* mutant: a cleanup that closes everything and leaves the flag as it is
GamePerformCleanupKeepingFlag ==
    /\ gamePc = "cleanup"
    /\ game' = [game EXCEPT !.gamePc = "loop_left"]
    /\ UNCHANGED <<serverVars, lockVars, tsoVars, tileVars, combatVars>>

\* lines 592-600: the flag is cleared; then the connection is closed, the pool
\* shut down and pygame quit, and whether these return or raise,
\* executeMainGameLoop is left
GamePerformCleanup ==
    /\ gamePc = "cleanup"
    /\ game' = [game EXCEPT !.isGameRunning = FALSE, !.gamePc = "loop_left"]
    /\ UNCHANGED <<serverVars, lockVars, tsoVars, tileVars, combatVars>>

GameMainNext ==
    \/ GameInitializeWorld
    \/ GameSetRunning
    \/ GameStartBackground
    \/ GameLoopTest
    \/ GameInput
    \/ GameFrame
    \/ GameStepRaises
    \/ GameExcept
    \/ GameEnterCleanup
    \/ GamePerformCleanup

\* line 341: while self.isGameRunning, in _continuousMapRendering
RenderTest ==
    /\ renderPc = "test"
    /\ game' = [game EXCEPT !.renderPc = IF isGameRunning THEN "render" ELSE "exited"]
    /\ UNCHANGED <<serverVars, lockVars, tsoVars, tileVars, combatVars>>

\* lines 342-357: the surface is rendered, published and the thread sleeps; an
\* exception is logged and the thread sleeps longer
RenderFrame ==
    /\ renderPc = "render"
    /\ game' = [game EXCEPT !.renderPc = "test"]
    /\ UNCHANGED <<serverVars, lockVars, tsoVars, tileVars, combatVars>>

\* line 361: while self.isGameRunning, in processExplosiveEffects
ExplosiveTest ==
    /\ explosivePc = "test"
    /\ game' = [game EXCEPT !.explosivePc = IF isGameRunning THEN "effects" ELSE "exited"]
    /\ UNCHANGED <<serverVars, lockVars, tsoVars, tileVars, combatVars>>

\* lines 362-377: the effects are processed and the thread sleeps; an exception
\* is logged
ExplosiveEffects ==
    /\ explosivePc = "effects"
    /\ game' = [game EXCEPT !.explosivePc = "test"]
    /\ UNCHANGED <<serverVars, lockVars, tsoVars, tileVars, combatVars>>

RenderNext == RenderTest \/ RenderFrame

ExplosiveNext == ExplosiveTest \/ ExplosiveEffects

GameNext ==
    \/ GameMainNext
    \/ RenderNext
    \/ ExplosiveNext

\* initiate_game_protocol is about to call initializeGameWorld (line 626)
GameInit ==
    /\ Constructed
    /\ mainPc = "off"
    /\ TsoIdle
    /\ TileIdle
    /\ CombatIdle
    /\ game = [gamePc |-> "init_world", isGameRunning |-> FALSE, gameWorldMap |-> "unset",
               renderPc |-> "unstarted", explosivePc |-> "unstarted",
               cleanupRuns |-> 0, loopExit |-> "none"]

GameSpec ==
    /\ GameInit
    /\ [][GameNext]_vars
    /\ WF_vars(GameMainNext)
    /\ WF_vars(RenderNext)
    /\ WF_vars(ExplosiveNext)

----------------------------------------------------------------------------
(* Claims about the client's loops, checked under GameSpec *)

\* C35: once the main game loop has set isGameRunning, the map rendering thread
\* that initializeGameWorld started is alive, and it stops only after the game has
\* stopped running.
C35_RendererAliveWhileGameRuns ==
    (gameWorldMap = "loaded" /\ isGameRunning) => renderPc \in {"test", "render"}

LeavesLoop == gamePc = "loop_left"

BackgroundLoopsEnded ==
    /\ renderPc = "exited"
    /\ explosivePc = "exited"

\* a background loop that tests the cleared flag ends there
EndsAtNextCheck ==
    /\ (renderPc = "test" /\ ~isGameRunning /\ renderPc' # renderPc) => renderPc' = "exited"
    /\ (explosivePc = "test" /\ ~isGameRunning /\ explosivePc' # explosivePc) =>
          explosivePc' = "exited"
    /\ (cleanupRuns >= 1 /\ ~isGameRunning) => ~isGameRunning'

----------------------------------------------------------------------------
(* game_engine_client.py: executeEnhancedCombatSystem, lines 404-428, called any  *)
(* number of times by the main thread with any of the weapons selected            *)

\* lines 404-406: the call, after the input handlers have selected a weapon
CombatCall ==
    /\ combatPc = "idle"
    /\ \E i \in DOMAIN weaponConfigurations :
          combat' = [combat EXCEPT !.selectedWeaponIndex = i,
                                   !.combatBefore = <<weaponAmmunition, projectileThreads>>,
                                   !.combatPc = "test"]
    /\ UNCHANGED <<serverVars, lockVars, tsoVars, tileVars, gameVars>>

\* mutant: the test that lets a weapon with no ammunition fire
CombatTestBelowZero ==
    /\ combatPc = "test"
    /\ combat' = [combat EXCEPT !.combatPc =
                     IF weaponAmmunition[selectedWeaponIndex] < 0 THEN "idle" ELSE "fire"]
    /\ UNCHANGED <<serverVars, lockVars, tsoVars, tileVars, gameVars>>

\* lines 408-410: without ammunition the call warns and returns
CombatTest ==
    /\ combatPc = "test"
    /\ combat' = [combat EXCEPT !.combatPc =
                     IF weaponAmmunition[selectedWeaponIndex] <= 0 THEN "idle" ELSE "fire"]
    /\ UNCHANGED <<serverVars, lockVars, tsoVars, tileVars, gameVars>>

\* lines 413-422: the trajectory is computed and the EnhancedCombat thread started
CombatStartThread ==
    /\ combatPc = "fire"
    /\ combat' = [combat EXCEPT !.projectileThreads = @ + 1, !.combatPc = "ammunition"]
    /\ UNCHANGED <<serverVars, lockVars, tsoVars, tileVars, gameVars>>

\* lines 425-428: selectedWeapon.currentAmmunition -= 1, the sound, the return
CombatDecrement ==
    /\ combatPc = "ammunition"
    /\ combat' = [combat EXCEPT !.weaponAmmunition[selectedWeaponIndex] = @ - 1,
                                !.combatPc = "idle"]
    /\ UNCHANGED <<serverVars, lockVars, tsoVars, tileVars, gameVars>>

CombatNext ==
    \/ CombatCall
    \/ CombatTest
    \/ CombatStartThread
    \/ CombatDecrement

\* the client is constructed: the weapons are full (lines 152, 213-219) and the
\* first weapon is selected (line 69)
CombatInit ==
    /\ Constructed
    /\ mainPc = "off"
    /\ TsoIdle
    /\ TileIdle
    /\ GameIdle
    /\ LET full == [i \in DOMAIN weaponConfigurations |->
                       weaponConfigurations[i].currentAmmunition] IN
       combat = [combatPc |-> "idle", weaponAmmunition |-> full,
                 selectedWeaponIndex |-> 0, projectileThreads |-> 0,
                 combatBefore |-> <<full, 0>>]

CombatSpec == CombatInit /\ [][CombatNext]_vars /\ WF_vars(CombatNext)

----------------------------------------------------------------------------
(* Claim about the ammunition, checked under CombatSpec *)

AmmunitionInRange ==
    \A i \in DOMAIN weaponConfigurations :
        weaponAmmunition[i] \in 0..weaponConfigurations[i].maximumAmmunition

\* what a call that returns has done, against the state it began in
CallEffect ==
    (combatPc # "idle" /\ combatPc' = "idle") =>
        IF combatBefore[1][selectedWeaponIndex] <= 0
        THEN /\ weaponAmmunition' = combatBefore[1]
             /\ projectileThreads' = combatBefore[2]
        ELSE /\ projectileThreads' = combatBefore[2] + 1
             /\ weaponAmmunition' =
                   [combatBefore[1] EXCEPT ![selectedWeaponIndex] = @ - 1]

\* C37: every weapon's ammunition stays between 0 and its maximum; a call made
\* with no ammunition in the selected weapon starts no projectile thread and
\* changes no ammunition, every other call starts exactly one projectile thread
\* and takes exactly 1 from the selected weapon and nothing from the others.
C37_AmmunitionStaysInRange ==
    /\ []AmmunitionInRange
    /\ [][CallEffect]_vars

\* the third weapon is empty after seven shots, and a call with it selected has
\* returned without a shot while the other weapons are full
C37_RefusedWhenEmpty ==
    /\ combatPc = "idle"
    /\ selectedWeaponIndex = 2
    /\ combatBefore[1][2] = 0
    /\ weaponAmmunition[2] = 0
    /\ weaponAmmunition[0] = weaponConfigurations[0].maximumAmmunition
    /\ weaponAmmunition[1] = weaponConfigurations[1].maximumAmmunition
    /\ projectileThreads = weaponConfigurations[2].maximumAmmunition

====
